---- MODULE Spec2Model ----
(***************************************************************************)
(* The article store of znews (src/store/article.go): an ordered slice of  *)
(* articles `a` and an index `m` from identifier to article, guarded by a  *)
(* sync.RWMutex.                                                           *)
(*                                                                         *)
(* Go strings that carry identifiers (Article.ID, Article.FeedID, the List *)
(* cursor and feed filter) are modelled as tuples of TLA+ strings: the     *)
(* empty string is <<>>, the SHA-1 UUID of (namespace, key) is the pair    *)
(* <<namespace, key>>, any other text is a one-element tuple.  Natural     *)
(* keys (GUID) and category labels are plain TLA+ strings.  time.Time is a *)
(* natural number.  A nil pointer, nil slice and nil error have their own  *)
(* values.                                                                 *)
(***************************************************************************)
EXTENDS Integers, Sequences, FiniteSets, TLC

VARIABLES
    a,        \* ArticleStore.a : the ordered slice of stored articles
    m,        \* ArticleStore.m : identifier -> stored article
    ret,      \* the call that just returned to the sequential caller, which
              \* holds its result until it lets go of it (Discard)
    pg,       \* a client paging through List with the returned cursor
    pc,       \* concurrent callers: position of each goroutine
    arg,      \* concurrent callers: the article a Create was called with
    result,   \* concurrent callers: what the last call of each returned
    writer,   \* ArticleStore.mu : the goroutine holding Lock(), or None
    readers,  \* ArticleStore.mu : the goroutines holding RLock()
    crashed,  \* the Go runtime stopped the process (fatal error)
    fm,       \* FeedStore.m : identifier -> stored feed
    fwriter   \* FeedStore.mu : the goroutine holding Lock(), or None

vars == <<a, m, ret, pg, pc, arg, result, writer, readers, crashed,
          fm, fwriter>>

----------------------------------------------------------------------------
(* Bounds *)

MaxDate == 3
ListMaxDate == 2
MaxPageSize == 2
MaxLen == 3
MaxLoad == 3
ConcMaxDate == 3

----------------------------------------------------------------------------
(* Values *)

EmptyString == <<>>
NilArticle == [nil |-> TRUE]
NoError == "<nil>"
ErrCursorNotFound == "could not find provided cursor"
ErrInvalidID == "invalid ID provided"
ErrNotFound == "resource not found"
None == "none"

uuidNamespace == "cabe9f84-ab7e-494c-bf53-7499adeb30ac"

\* uuid.NewSHA1(space, data).String(): deterministic, and distinct for
\* distinct (space, data).
NewSHA1(space, data) == <<space, data>>

\* time.Time.After
After(t, u) == t > u

\* types.Article (the fields the store reads or writes)
Article(feed, guid, date, cats) ==
    [FeedID |-> feed, ID |-> EmptyString, GUID |-> guid,
     PublishDate |-> date, Categories |-> cats]

Feed1 == NewSHA1(uuidNamespace, "http://feed1")
Feed2 == NewSHA1(uuidNamespace, "http://feed2")

\* ArticleStore as built by NewArticleStore, and as left by Reset
EmptySlice == <<>>
EmptyMap == [id \in {} |-> NilArticle]

\* types.Feed, and a nil *types.Feed
Feed(provider, category, address) ==
    [ID |-> EmptyString, Provider |-> provider, Category |-> category,
     Address |-> address]
NilFeed == [nilFeed |-> TRUE]

\* FeedStore as built by NewFeedStore, and as left by its Reset
EmptyFeedMap == [id \in {} |-> NilFeed]

----------------------------------------------------------------------------
(* ArticleStore.Create, src/store/article.go:40-79 *)

\* m[id] = article
MapSet(M, id, article) ==
    [k \in (DOMAIN M) \cup {id} |-> IF k = id THEN article ELSE M[k]]

\* a wrong insertion: as.a[i] = article
InsertAfterOverwriting(S, i, article) ==
    LET shifted == SubSeq(S, 1, i + 1) \o SubSeq(S, i + 1, Len(S))
    IN  [shifted EXCEPT ![i + 1] = article]

\* a wrong insertion: the element after the new one is the one before it
\* again, and the last element is lost
InsertAfterDuplicating(S, i, article) ==
    SubSeq(S, 1, i + 1) \o <<article>> \o SubSeq(S, i + 1, Len(S) - 1)

\* as.a = append(as.a[:i+1], as.a[i:]...); as.a[i+1] = article
\* (i is the Go index; the TLA+ sequence is 1-based)
InsertAfter(S, i, article) ==
    LET shifted == SubSeq(S, 1, i + 1) \o SubSeq(S, i + 1, Len(S))
    IN  [shifted EXCEPT ![i + 2] = article]

\* the backward loop of lines 70-77, entered at Go index i; when the loop
\* runs out without a hit neither the slice nor the map is written
RECURSIVE ScanInsert(_, _, _, _)
ScanInsert(S, M, i, article) ==
    IF i < 0
    THEN [a |-> S, m |-> M]
    ELSE IF After(article.PublishDate, S[i + 1].PublishDate) \/ i = 0
         THEN [a |-> InsertAfter(S, i, article),
               m |-> MapSet(M, article.ID, article)]
         ELSE ScanInsert(S, M, i - 1, article)

\* lines 55-59: the append fast path is taken
AppendPath(S, article) ==
    Len(S) = 0 \/ ~After(S[Len(S)].PublishDate, article.PublishDate)

\* a wrong prepend test: article.PublishDate.Before(as.a[0].PublishDate)
PrependPathStrict(S, article) ==
    After(S[1].PublishDate, article.PublishDate)

\* lines 62-66: the prepend fast path is taken
PrependPath(S, article) ==
    ~After(article.PublishDate, S[1].PublishDate)

\* which branch of lines 55-77 inserts the article
InsertPath(S, article) ==
    IF AppendPath(S, article) THEN "append"
    ELSE IF PrependPath(S, article) THEN "prepend" ELSE "scan"

\* a wrong insertion: the prepend path does not write the index
CreateLockedPrependUnindexed(S, M, article) ==
    IF AppendPath(S, article)
    THEN [a |-> Append(S, article), m |-> MapSet(M, article.ID, article)]
    ELSE IF PrependPath(S, article)
         THEN [a |-> <<article>> \o S, m |-> M]
         ELSE ScanInsert(S, M, Len(S) - 2, article)

\* lines 51-78: the insertion done under the writer lock
CreateLocked(S, M, article) ==
    IF AppendPath(S, article)
    THEN [a |-> Append(S, article), m |-> MapSet(M, article.ID, article)]
    ELSE IF PrependPath(S, article)
         THEN [a |-> <<article>> \o S, m |-> MapSet(M, article.ID, article)]
         ELSE ScanInsert(S, M, Len(S) - 2, article)

\* line 44
\* a wrong identifier: an article without GUID gets one of its own, made of
\* its feed and its date
GeneratedIDOfUnkeyed(article) ==
    IF article.GUID = ""
    THEN NewSHA1(article.FeedID[2], article.PublishDate)
    ELSE NewSHA1(uuidNamespace, article.GUID)

GeneratedID(article) == NewSHA1(uuidNamespace, article.GUID)

\* a wrong Create: the article of a duplicate GUID replaces the stored one
CreateResultUpsert(S, M, article) ==
    IF article = NilArticle
    THEN [a |-> S, m |-> M, res |-> NilArticle, err |-> NoError,
          path |-> "nil"]
    ELSE LET stamped == [article EXCEPT !.ID = GeneratedID(article)]
         IN  IF GeneratedID(article) \in DOMAIN M
             THEN [a |-> [i \in DOMAIN S |->
                            IF S[i].ID = stamped.ID THEN stamped ELSE S[i]],
                   m |-> MapSet(M, stamped.ID, stamped),
                   res |-> stamped, err |-> NoError, path |-> "duplicate"]
             ELSE LET st == CreateLocked(S, M, stamped)
                  IN  [a |-> st.a, m |-> st.m, res |-> stamped,
                       err |-> NoError, path |-> InsertPath(S, stamped)]

\* a wrong Create: an identifier set by the caller is kept
CreateResultKeepingID(S, M, article) ==
    IF article = NilArticle
    THEN [a |-> S, m |-> M, res |-> NilArticle, err |-> NoError,
          path |-> "nil"]
    ELSE IF GeneratedID(article) \in DOMAIN M
         THEN [a |-> S, m |-> M, res |-> M[GeneratedID(article)],
               err |-> NoError, path |-> "duplicate"]
         ELSE LET stamped == IF article.ID = EmptyString
                             THEN [article EXCEPT !.ID = GeneratedID(article)]
                             ELSE article
                  st == CreateLocked(S, M, stamped)
              IN  [a |-> st.a,
                   m |-> MapSet(M, GeneratedID(article), stamped),
                   res |-> stamped, err |-> NoError,
                   path |-> InsertPath(S, stamped)]

\* a wrong Create: a nil article is refused
CreateResultRefusingNil(S, M, article) ==
    IF article = NilArticle
    THEN [a |-> S, m |-> M, res |-> NilArticle, err |-> ErrInvalidID,
          path |-> "nil"]
    ELSE IF GeneratedID(article) \in DOMAIN M
         THEN [a |-> S, m |-> M, res |-> M[GeneratedID(article)],
               err |-> NoError, path |-> "duplicate"]
         ELSE LET stamped == [article EXCEPT !.ID = GeneratedID(article)]
                  st == CreateLocked(S, M, stamped)
              IN  [a |-> st.a, m |-> st.m, res |-> stamped, err |-> NoError,
                   path |-> InsertPath(S, stamped)]

\* the whole of Create for one caller at a time: the store it leaves, what
\* it returns, and the return statement it left by
CreateResult(S, M, article) ==
    IF article = NilArticle
    THEN [a |-> S, m |-> M, res |-> NilArticle, err |-> NoError,
          path |-> "nil"]
    ELSE IF GeneratedID(article) \in DOMAIN M
         THEN [a |-> S, m |-> M, res |-> M[GeneratedID(article)],
               err |-> NoError, path |-> "duplicate"]
         ELSE LET stamped == [article EXCEPT !.ID = GeneratedID(article)]
                  st == CreateLocked(S, M, stamped)
              IN  [a |-> st.a, m |-> st.m, res |-> stamped, err |-> NoError,
                   path |-> InsertPath(S, stamped)]

----------------------------------------------------------------------------
(* ArticleStore.List, src/store/article.go:86-161 *)

\* findArticleCursorIndex: the Go index to start at, and whether it was found
RECURSIVE CursorScan(_, _, _)
CursorScan(S, cursor, i) ==
    IF i >= Len(S)
    THEN [idx |-> 0, ok |-> FALSE]
    ELSE IF S[i + 1].ID = cursor
         THEN [idx |-> i + 1, ok |-> TRUE]
         ELSE CursorScan(S, cursor, i + 1)

findArticleCursorIndex(S, cursor) ==
    IF cursor = EmptyString
    THEN [idx |-> 0, ok |-> TRUE]
    ELSE CursorScan(S, cursor, 0)

\* lines 88-91: the filter set built from the variadic argument
CatSet(categories) == {categories[k] : k \in DOMAIN categories}

\* a wrong category filter: every category of the article must be asked for
SkippedByCategoryAll(current, cat) ==
    /\ cat # {}
    /\ \/ Len(current.Categories) = 0
       \/ \E k \in DOMAIN current.Categories : current.Categories[k] \notin cat

\* lines 104-119: the article is skipped by the category filter
SkippedByCategory(current, cat) ==
    /\ cat # {}
    /\ \/ Len(current.Categories) = 0
       \/ ~\E k \in DOMAIN current.Categories : current.Categories[k] \in cat

\* a wrong feed filter: the empty filter is compared too
SkippedByFeedAlways(current, feed) ==
    current.FeedID # feed

\* lines 120-125: the article is skipped by the feed filter
SkippedByFeed(current, feed) ==
    feed # EmptyString /\ current.FeedID # feed

\* a wrong walk: if found >= pageSize { break }
RECURSIVE ListWalkAtLeast(_, _, _, _, _, _, _)
ListWalkAtLeast(S, i, found, res, pageSize, feed, cat) ==
    IF i >= Len(S)
    THEN res
    ELSE LET current == S[i + 1]
         IN  IF SkippedByCategory(current, cat) \/ SkippedByFeed(current, feed)
             THEN ListWalkAtLeast(S, i + 1, found, res, pageSize, feed, cat)
             ELSE IF found + 1 >= pageSize
                  THEN Append(res, current)
                  ELSE ListWalkAtLeast(S, i + 1, found + 1,
                                       Append(res, current),
                                       pageSize, feed, cat)

\* a wrong walk: if found > pageSize { break }
RECURSIVE ListWalkOneMore(_, _, _, _, _, _, _)
ListWalkOneMore(S, i, found, res, pageSize, feed, cat) ==
    IF i >= Len(S)
    THEN res
    ELSE LET current == S[i + 1]
         IN  IF SkippedByCategory(current, cat) \/ SkippedByFeed(current, feed)
             THEN ListWalkOneMore(S, i + 1, found, res, pageSize, feed, cat)
             ELSE IF found + 1 > pageSize
                  THEN Append(res, current)
                  ELSE ListWalkOneMore(S, i + 1, found + 1,
                                       Append(res, current),
                                       pageSize, feed, cat)

\* lines 102-131: the walk from Go index i with `found` collected in res
RECURSIVE ListWalk(_, _, _, _, _, _, _)
ListWalk(S, i, found, res, pageSize, feed, cat) ==
    IF i >= Len(S)
    THEN res
    ELSE LET current == S[i + 1]
         IN  IF SkippedByCategory(current, cat) \/ SkippedByFeed(current, feed)
             THEN ListWalk(S, i + 1, found, res, pageSize, feed, cat)
             ELSE IF found + 1 = pageSize
                  THEN Append(res, current)
                  ELSE ListWalk(S, i + 1, found + 1, Append(res, current),
                                pageSize, feed, cat)

\* a wrong List: a page with no article is reported as an error
ListRefusingEmptyPage(S, cursor, pageSize, feed, categories) ==
    LET first == findArticleCursorIndex(S, cursor)
        res   == ListWalk(S, first.idx, 0, <<>>, pageSize, feed,
                          CatSet(categories))
    IN  IF ~first.ok \/ res = <<>>
        THEN [res |-> <<>>, err |-> ErrCursorNotFound]
        ELSE [res |-> res, err |-> NoError]

\* a wrong List: a cursor that is not found gives an empty page
ListIgnoringLostCursor(S, cursor, pageSize, feed, categories) ==
    LET first == findArticleCursorIndex(S, cursor)
    IN  IF ~first.ok
        THEN [res |-> <<>>, err |-> NoError]
        ELSE [res |-> ListWalk(S, first.idx, 0, <<>>, pageSize, feed,
                               CatSet(categories)),
              err |-> NoError]

\* List: [res, err]; a nil slice is the empty sequence
List(S, cursor, pageSize, feed, categories) ==
    LET first == findArticleCursorIndex(S, cursor)
    IN  IF ~first.ok
        THEN [res |-> <<>>, err |-> ErrCursorNotFound]
        ELSE [res |-> ListWalk(S, first.idx, 0, <<>>, pageSize, feed,
                               CatSet(categories)),
              err |-> NoError]

----------------------------------------------------------------------------
(* ArticleStore.Get, src/store/article.go:137-147 *)

\* a wrong Get: the empty identifier is looked up like any other
GetWithoutEmptyCheck(M, id) ==
    IF id \notin DOMAIN M
    THEN [res |-> NilArticle, err |-> ErrNotFound]
    ELSE [res |-> M[id], err |-> NoError]

Get(M, id) ==
    IF id = EmptyString
    THEN [res |-> NilArticle, err |-> ErrInvalidID]
    ELSE IF id \notin DOMAIN M
         THEN [res |-> NilArticle, err |-> ErrNotFound]
         ELSE [res |-> M[id], err |-> NoError]

----------------------------------------------------------------------------
(* FeedStore, src/unnamed/part_000:12-75 *)

\* a wrong identifier: the feed store has a namespace of its own
FeedGeneratedIDOwnNamespace(feed) ==
    NewSHA1("feed-namespace", feed.Address)

\* line 39: the store's namespace is parsed from the package constant that
\* the article store uses too (line 23)
FeedGeneratedID(feed) == NewSHA1(uuidNamespace, feed.Address)

\* a wrong Create: a stored feed is overwritten by the new value
FeedCreateResultUpsert(FM, feed) ==
    IF feed = NilFeed
    THEN [fm |-> FM, res |-> NilFeed, err |-> NoError]
    ELSE LET stamped == [feed EXCEPT !.ID = FeedGeneratedID(feed)]
         IN  [fm |-> MapSet(FM, FeedGeneratedID(feed), stamped),
              res |-> stamped, err |-> NoError]

\* FeedStore.Create for one caller at a time, lines 35-48
FeedCreateResult(FM, feed) ==
    IF feed = NilFeed
    THEN [fm |-> FM, res |-> NilFeed, err |-> NoError]
    ELSE IF FeedGeneratedID(feed) \in DOMAIN FM
         THEN [fm |-> FM, res |-> FM[FeedGeneratedID(feed)], err |-> NoError]
         ELSE LET stamped == [feed EXCEPT !.ID = FeedGeneratedID(feed)]
              IN  [fm |-> MapSet(FM, FeedGeneratedID(feed), stamped),
                   res |-> stamped, err |-> NoError]

\* a wrong Get: the empty identifier is looked up like any other
FeedGetWithoutEmptyCheck(FM, id) ==
    IF id \notin DOMAIN FM
    THEN [res |-> NilFeed, err |-> ErrNotFound]
    ELSE [res |-> FM[id], err |-> NoError]

\* FeedStore.Get, lines 65-75
FeedGet(FM, id) ==
    IF id = EmptyString
    THEN [res |-> NilFeed, err |-> ErrInvalidID]
    ELSE IF id \notin DOMAIN FM
         THEN [res |-> NilFeed, err |-> ErrNotFound]
         ELSE [res |-> FM[id], err |-> NoError]

\* the orders in which a range over the map may visit its keys
KeyOrders(FM) ==
    {o \in [1..Cardinality(DOMAIN FM) -> DOMAIN FM] :
        \A i, j \in DOMAIN o : o[i] = o[j] => i = j}

\* a wrong List: the range stops after the first feed
FeedListFirstOnly(FM) ==
    {[res |-> IF DOMAIN FM = {} THEN <<>> ELSE <<FM[o[1]]>>, err |-> NoError] :
        o \in KeyOrders(FM)}

\* FeedStore.List, lines 52-62: every result the call may give
FeedList(FM) ==
    {[res |-> [i \in DOMAIN o |-> FM[o[i]]], err |-> NoError] :
        o \in KeyOrders(FM)}

----------------------------------------------------------------------------
(* One caller at a time: every call runs from entry to return *)

GUIDs == {"g1", "g2", "g3", "g4"}
ListGUIDs == {"g1", "g2", "g3"}

\* the articles handed to Create when the claims are about the order
PresetID == <<"preset_id">>

\* articles whose ID field the caller filled in before calling Create
PresetInputs ==
    {[Article(Feed1, g, 1, <<"c1">>) EXCEPT !.ID = PresetID] : g \in GUIDs}

OrderInputs ==
    {Article(Feed1, g, d, <<"c1">>) : g \in GUIDs, d \in 1..MaxDate}
        \cup PresetInputs \cup {NilArticle}

\* the identifiers Get is called with
GetIDs ==
    {EmptyString, <<"invalid_id">>}
        \cup {NewSHA1(uuidNamespace, g) : g \in GUIDs}

\* the articles handed to Create when the claims are about List
FeedAndCategories ==
    {<<Feed1, <<"c1", "c2">>>>, <<Feed2, <<>>>>, <<Feed1, <<"c2">>>>}

ListInputs ==
    {Article(fc[1], g, d, fc[2]) :
        fc \in FeedAndCategories, g \in ListGUIDs, d \in 1..ListMaxDate}

Cursors ==
    {EmptyString, <<"invalid_cursor">>}
        \cup {NewSHA1(uuidNamespace, g) : g \in ListGUIDs}
PageSizes == 0..MaxPageSize
FeedFilters == {EmptyString, Feed1, Feed2}
CategoryFilters == {<<>>, <<"c1">>, <<"c2", "c3">>, <<"c3">>}

NoCall == [op |-> "none"]
NoPaging == [state |-> "idle"]

Init ==
    /\ a = EmptySlice
    /\ m = EmptyMap
    /\ ret = NoCall
    /\ pg = NoPaging
    /\ pc = <<>>
    /\ arg = <<>>
    /\ result = <<>>
    /\ writer = None
    /\ readers = {}
    /\ crashed = FALSE
    /\ fm = EmptyFeedMap
    /\ fwriter = None

\* the caller is done with the result of its last call
Discard ==
    /\ ret # NoCall
    /\ ret' = NoCall
    /\ UNCHANGED <<a, m, pg, pc, arg, result, writer, readers, fm, fwriter, crashed>>

Create(article) ==
    LET r == CreateResult(a, m, article)
    IN  /\ ret = NoCall
        /\ a' = r.a
        /\ m' = r.m
        /\ ret' = [op |-> "Create", article |-> article,
                   res |-> r.res, err |-> r.err, path |-> r.path]
        /\ pg' = NoPaging
        /\ UNCHANGED <<pc, arg, result, writer, readers, fm, fwriter, crashed>>

\* a wrong Reset: the slice is left as it was
ResetIndexOnly ==
    /\ ret = NoCall
    /\ a' = a
    /\ m' = EmptyMap
    /\ ret' = [op |-> "Reset", valid |-> DOMAIN m]
    /\ pg' = NoPaging
    /\ UNCHANGED <<pc, arg, result, writer, readers, fm, fwriter, crashed>>

\* a wrong Reset: the index is left as it was
ResetSliceOnly ==
    /\ ret = NoCall
    /\ a' = EmptySlice
    /\ ret' = [op |-> "Reset", valid |-> DOMAIN m]
    /\ pg' = NoPaging
    /\ UNCHANGED <<m, pc, arg, result, writer, readers, fm, fwriter, crashed>>

\* Reset; the caller remembers the identifiers that were valid before it
Reset ==
    /\ ret = NoCall
    /\ a' = EmptySlice
    /\ m' = EmptyMap
    /\ ret' = [op |-> "Reset", valid |-> DOMAIN m]
    /\ pg' = NoPaging
    /\ UNCHANGED <<pc, arg, result, writer, readers, fm, fwriter, crashed>>

ListCall(cursor, pageSize, feed, categories) ==
    LET r == List(a, cursor, pageSize, feed, categories)
    IN  /\ ret = NoCall
        /\ ret' = [op |-> "List", cursor |-> cursor, pageSize |-> pageSize,
                   feed |-> feed, categories |-> categories,
                   res |-> r.res, err |-> r.err]
        /\ pg' = NoPaging
        /\ UNCHANGED <<a, m, pc, arg, result, writer, readers, fm, fwriter, crashed>>

GetCall(id) ==
    LET r == Get(m, id)
    IN  /\ ret = NoCall
        /\ ret' = [op |-> "Get", id |-> id, res |-> r.res, err |-> r.err]
        /\ UNCHANGED <<a, m, pg, pc, arg, result, writer, readers, fm, fwriter,
                       crashed>>

CreateOrdered == \E article \in OrderInputs : Create(article)
ListEverything == ListCall(EmptyString, 0, EmptyString, <<>>)
GetAny == \E id \in GetIDs : GetCall(id)

Next ==
    \/ CreateOrdered
    \/ Reset
    \/ ListEverything
    \/ GetAny
    \/ Discard

Spec == Init /\ [][Next]_vars

\* articles whose GUID is the empty string, as the converter makes them of
\* items without a guid; they differ in feed, date and categories
UnkeyedInputs ==
    {Article(fc[1], "", d, fc[2]) :
        fc \in {<<Feed1, <<"c1">>>>, <<Feed2, <<>>>>}, d \in 1..MaxDate}

\* articles with a GUID that are stored next to them
BesideInputs ==
    {Article(Feed1, g, d, <<"c1">>) : g \in {"g1", "g2"}, d \in 1..MaxDate}

CreateUnkeyed == \E article \in UnkeyedInputs : Create(article)
CreateBesideUnkeyed == \E article \in BesideInputs : Create(article)

NextUnkeyed ==
    \/ CreateUnkeyed
    \/ CreateBesideUnkeyed
    \/ Reset
    \/ ListEverything
    \/ Discard

SpecUnkeyed == Init /\ [][NextUnkeyed]_vars

----------------------------------------------------------------------------
(* One caller at a time, reading through List *)

\* what a client that pages with `pageSize` and no filters (e2e
\* TestCanLazyLoadArticles) holds after the page List(cursor, pageSize, "")
\* returned r: it keeps the articles and takes the last identifier as cursor
PagerAfter(r, cursor, pageSize, got) ==
    IF r.err # NoError
    THEN [state |-> "failed", pageSize |-> pageSize, cursor |-> cursor,
          got |-> got]
    ELSE IF Len(r.res) = 0
         THEN [state |-> "done", pageSize |-> pageSize, cursor |-> cursor,
               got |-> got]
         ELSE [state |-> "paging", pageSize |-> pageSize,
               cursor |-> r.res[Len(r.res)].ID, got |-> got \o r.res]

PageStep(cursor, pageSize, got) ==
    LET r == List(a, cursor, pageSize, EmptyString, <<>>)
    IN  /\ ret = NoCall
        /\ ret' = [op |-> "List", cursor |-> cursor, pageSize |-> pageSize,
                   feed |-> EmptyString, categories |-> <<>>,
                   res |-> r.res, err |-> r.err]
        /\ pg' = PagerAfter(r, cursor, pageSize, got)
        /\ UNCHANGED <<a, m, pc, arg, result, writer, readers, fm, fwriter, crashed>>

FirstPage == \E pageSize \in 1..MaxPageSize : PageStep(EmptyString, pageSize, <<>>)

\* the next page: the cursor is the identifier of the last article returned
NextPage ==
    /\ pg.state = "paging"
    /\ PageStep(pg.cursor, pg.pageSize, pg.got)

CreateListed == \E article \in ListInputs : Create(article)

ListAny ==
    \E cursor \in Cursors, pageSize \in PageSizes, feed \in FeedFilters,
       categories \in CategoryFilters :
        ListCall(cursor, pageSize, feed, categories)

NextList ==
    \/ CreateListed
    \/ Reset
    \/ ListAny
    \/ FirstPage
    \/ NextPage
    \/ Discard

SpecList == Init /\ [][NextList]_vars

\* a client that pages with a fixed feed filter and fixed categories
FilteredPageStep(cursor, pageSize, feed, categories, got) ==
    LET r == List(a, cursor, pageSize, feed, categories)
    IN  /\ ret = NoCall
        /\ ret' = [op |-> "List", cursor |-> cursor, pageSize |-> pageSize,
                   feed |-> feed, categories |-> categories,
                   res |-> r.res, err |-> r.err]
        /\ pg' = PagerAfter(r, cursor, pageSize, got)
                     @@ [feed |-> feed, categories |-> categories]
        /\ UNCHANGED <<a, m, pc, arg, result, writer, readers, fm, fwriter, crashed>>

FirstFilteredPage ==
    \E pageSize \in 1..MaxPageSize, feed \in FeedFilters,
       categories \in CategoryFilters :
        FilteredPageStep(EmptyString, pageSize, feed, categories, <<>>)

NextFilteredPage ==
    /\ pg.state = "paging"
    /\ FilteredPageStep(pg.cursor, pg.pageSize, pg.feed, pg.categories, pg.got)

\* List called with the identifier of a stored article that the filters of
\* the call leave out
ListFromExcluded ==
    \E i \in DOMAIN a, pageSize \in PageSizes, feed \in FeedFilters,
       categories \in CategoryFilters :
        /\ SkippedByCategory(a[i], CatSet(categories))
              \/ SkippedByFeed(a[i], feed)
        /\ ListCall(a[i].ID, pageSize, feed, categories)

NextFiltered ==
    \/ CreateListed
    \/ Reset
    \/ FirstFilteredPage
    \/ NextFilteredPage
    \/ ListFromExcluded
    \/ Discard

SpecFiltered == Init /\ [][NextFiltered]_vars

\* page sizes below zero; the parameter of List is an int
NegativePageSizes == {0 - k : k \in 1..MaxPageSize}

ListNegative ==
    \E cursor \in Cursors, pageSize \in NegativePageSizes,
       feed \in FeedFilters, categories \in CategoryFilters :
        ListCall(cursor, pageSize, feed, categories)

NextUnlimited ==
    \/ CreateListed
    \/ Reset
    \/ ListNegative
    \/ Discard

SpecUnlimited == Init /\ [][NextUnlimited]_vars

\* List called right after a Reset returned, with the identifier of an
\* article that was stored before the Reset
ListStale ==
    /\ ret.op = "Reset"
    /\ \E cursor \in ret.valid, pageSize \in PageSizes, feed \in FeedFilters,
          categories \in CategoryFilters :
          LET r == List(a, cursor, pageSize, feed, categories)
          IN  ret' = [op |-> "List", cursor |-> cursor,
                      pageSize |-> pageSize, feed |-> feed,
                      categories |-> categories, res |-> r.res,
                      err |-> r.err, valid |-> ret.valid]
    /\ pg' = NoPaging
    /\ UNCHANGED <<a, m, pc, arg, result, writer, readers, fm, fwriter, crashed>>

NextStale ==
    \/ CreateListed
    \/ Reset
    \/ ListStale
    \/ Discard

SpecStale == Init /\ [][NextStale]_vars

----------------------------------------------------------------------------
(* One caller at a time, using the feed store next to the article store *)

\* the natural keys: feed addresses and article GUIDs are Go strings, and
\* the same string may serve as either
Keys == {"g1", "g2", "g3"}
Providers == {"bbc", "sky"}

FeedInputs ==
    {Feed(provider, "c1", address) : provider \in Providers, address \in Keys}
        \cup {NilFeed}

KeyedInputs ==
    {Article(Feed1, g, 1, <<"c1">>) : g \in Keys} \cup {NilArticle}

FeedGetIDs ==
    {EmptyString, <<"invalid_id">>}
        \cup {NewSHA1(uuidNamespace, address) : address \in Keys}

FeedCreate(feed) ==
    LET r == FeedCreateResult(fm, feed)
    IN  /\ ret = NoCall
        /\ fm' = r.fm
        /\ ret' = [op |-> "FeedCreate", feed |-> feed, res |-> r.res,
                   err |-> r.err]
        /\ UNCHANGED <<a, m, pg, pc, arg, result, writer, readers, fwriter,
                       crashed>>

FeedGetCall(id) ==
    LET r == FeedGet(fm, id)
    IN  /\ ret = NoCall
        /\ ret' = [op |-> "FeedGet", id |-> id, res |-> r.res, err |-> r.err]
        /\ UNCHANGED <<a, m, pg, pc, arg, result, writer, readers, fm, fwriter,
                       crashed>>

FeedListCall ==
    /\ ret = NoCall
    /\ \E r \in FeedList(fm) :
          ret' = [op |-> "FeedList", res |-> r.res, err |-> r.err]
    /\ UNCHANGED <<a, m, pg, pc, arg, result, writer, readers, fm, fwriter,
                   crashed>>

\* FeedStore.Reset, lines 28-32
FeedReset ==
    /\ ret = NoCall
    /\ fm' = EmptyFeedMap
    /\ ret' = [op |-> "FeedReset"]
    /\ UNCHANGED <<a, m, pg, pc, arg, result, writer, readers, fwriter,
                   crashed>>

CreateKeyed == \E article \in KeyedInputs : Create(article)
FeedCreateAny == \E feed \in FeedInputs : FeedCreate(feed)
FeedGetAny == \E id \in FeedGetIDs : FeedGetCall(id)

NextFeed ==
    \/ CreateKeyed
    \/ FeedCreateAny
    \/ FeedGetAny
    \/ FeedListCall
    \/ FeedReset
    \/ Discard

SpecFeed == Init /\ [][NextFeed]_vars

----------------------------------------------------------------------------
(* FeedConsumer.Consume, src/feedconsumer/feedconsumer_test.go:123-175,     *)
(* called by one caller at a time                                           *)

\* the error a collaborator of the consumer fails with
RandomError == "random error"

\* a nil slice of articles
NilArticles == <<>>

\* a wrong report of a failed load: the loader's error as it is
LoadFailureUnwrapped(err) == err

\* line 153: fmt.Errorf("could not load articles from the feed: %v", err)
LoadFailure(err) == "could not load articles from the feed: " \o err

\* a wrong store: a stored article is replaced by the new value
StoreCreateReplacing(S, M, article, fails) ==
    IF fails
    THEN [a |-> S, m |-> M, res |-> NilArticle, err |-> RandomError]
    ELSE LET stamped == [article EXCEPT !.ID = GeneratedID(article)]
             kept == SelectSeq(S, LAMBDA x : x.ID # stamped.ID)
             st == CreateLocked(kept, M, stamped)
         IN  [a |-> st.a, m |-> st.m, res |-> stamped, err |-> NoError]

\* a wrong store: a stored article takes over the feed of the new value
StoreCreateAdoptingFeed(S, M, article, fails) ==
    IF fails
    THEN [a |-> S, m |-> M, res |-> NilArticle, err |-> RandomError]
    ELSE LET r == CreateResult(S, M, article)
             id == GeneratedID(article)
             Adopt(x) == IF x.ID = id
                         THEN [x EXCEPT !.FeedID = article.FeedID]
                         ELSE x
         IN  IF r.path = "duplicate"
             THEN [a |-> [i \in DOMAIN S |-> Adopt(S[i])],
                   m |-> [k \in DOMAIN M |-> Adopt(M[k])],
                   res |-> Adopt(M[id]), err |-> NoError]
             ELSE [a |-> r.a, m |-> r.m, res |-> r.res, err |-> r.err]

\* c.store.Create(article), line 160: the consumer's ArticleStore is an
\* interface; the store of the program never fails, an implementation such
\* as the one of the tests may fail and then stores nothing
StoreCreate(S, M, article, fails) ==
    IF fails
    THEN [a |-> S, m |-> M, res |-> NilArticle, err |-> RandomError]
    ELSE LET r == CreateResult(S, M, article)
         IN  [a |-> r.a, m |-> r.m, res |-> r.res, err |-> r.err]

\* a wrong loop: a failed Create is skipped and the loop goes on
RECURSIVE ConsumeFromSkippingErrors(_, _, _, _, _, _)
ConsumeFromSkippingErrors(S, M, feed, articles, k, failAt) ==
    IF k > Len(articles)
    THEN [a |-> S, m |-> M, err |-> NoError, calls |-> k - 1,
          handed |-> <<>>]
    ELSE LET article == [articles[k] EXCEPT !.FeedID = feed.ID]
             r == StoreCreate(S, M, article, k = failAt)
             rest == ConsumeFromSkippingErrors(r.a, r.m, feed, articles,
                                               k + 1, failAt)
         IN  [rest EXCEPT !.handed = <<article>> \o @]

\* a wrong loop: the article is handed to Create as it was loaded, without
\* the identifier of the feed
RECURSIVE ConsumeFromStampingLate(_, _, _, _, _, _)
ConsumeFromStampingLate(S, M, feed, articles, k, failAt) ==
    IF k > Len(articles)
    THEN [a |-> S, m |-> M, err |-> NoError, calls |-> k - 1,
          handed |-> <<>>]
    ELSE LET article == articles[k]
             r == StoreCreate(S, M, article, k = failAt)
         IN  IF r.err # NoError
             THEN [a |-> r.a, m |-> r.m, err |-> r.err, calls |-> k,
                   handed |-> <<article>>]
             ELSE LET rest == ConsumeFromStampingLate(r.a, r.m, feed,
                                                      articles, k + 1, failAt)
                  IN  [rest EXCEPT !.handed = <<article>> \o @]

\* the loop of lines 158-165 from the k-th article on; the Create of the
\* failAt-th article fails (none when failAt = 0); `handed` are the
\* articles as they were when Create was called with them
RECURSIVE ConsumeFrom(_, _, _, _, _, _)
ConsumeFrom(S, M, feed, articles, k, failAt) ==
    IF k > Len(articles)
    THEN [a |-> S, m |-> M, err |-> NoError, calls |-> k - 1,
          handed |-> <<>>]
    ELSE LET article == [articles[k] EXCEPT !.FeedID = feed.ID]
             r == StoreCreate(S, M, article, k = failAt)
         IN  IF r.err # NoError
             THEN [a |-> r.a, m |-> r.m, err |-> r.err, calls |-> k,
                   handed |-> <<article>>]
             ELSE LET rest == ConsumeFrom(r.a, r.m, feed, articles, k + 1,
                                          failAt)
                  IN  [rest EXCEPT !.handed = <<article>> \o @]

\* Consume, lines 150-166; load is what c.feed.Load(feed.Address) returns
ConsumeResult(S, M, feed, load, failAt) ==
    IF load.err # NoError
    THEN [a |-> S, m |-> M, err |-> LoadFailure(load.err), calls |-> 0,
          handed |-> <<>>]
    ELSE IF Len(load.articles) = 0
         THEN [a |-> S, m |-> M, err |-> NoError, calls |-> 0,
               handed |-> <<>>]
         ELSE ConsumeFrom(S, M, feed, load.articles, 1, failAt)

LoadGUIDs == {"g1", "g2", "g3"}

\* the publish date of the item with each GUID
LoadDate == [g1 |-> 2, g2 |-> 1, g3 |-> 3]

\* what the loader makes of an item: ID and FeedID are left empty
LoadedArticles ==
    {Article(EmptyString, g, LoadDate[g], <<"c1">>) : g \in LoadGUIDs}

SeqsUpTo(n, X) == UNION {[1..k -> X] : k \in 0..n}

\* the results of Load: articles, no articles (nil, nil), or an error
Loads ==
    {[articles |-> as, err |-> NoError] : as \in SeqsUpTo(MaxLoad, LoadedArticles)}
        \cup {[articles |-> NilArticles, err |-> RandomError]}

\* feeds as the feed store returns them
ConsumedFeeds ==
    {[Feed("bbc", "c1", "http://feed1") EXCEPT !.ID = Feed1],
     [Feed("sky", "c1", "http://feed2") EXCEPT !.ID = Feed2]}

Consume(feed, load, failAt) ==
    LET r == ConsumeResult(a, m, feed, load, failAt)
    IN  /\ ret = NoCall
        /\ a' = r.a
        /\ m' = r.m
        /\ ret' = [op |-> "Consume", feed |-> feed, load |-> load,
                   failAt |-> failAt, err |-> r.err, calls |-> r.calls,
                   handed |-> r.handed]
        /\ pg' = NoPaging
        /\ UNCHANGED <<pc, arg, result, writer, readers, fm, fwriter, crashed>>

ConsumeAny ==
    \E feed \in ConsumedFeeds, load \in Loads :
        \E failAt \in 0..Len(load.articles) : Consume(feed, load, failAt)

NextConsume ==
    \/ ConsumeAny
    \/ Reset
    \/ Discard

SpecConsume == Init /\ [][NextConsume]_vars

----------------------------------------------------------------------------
(* Feed.Load, src/rssreader/rssreader.go:21-38, and the converter of the   *)
(* items, src/rssreader/converters/converters.go:17-49, under Consume      *)

\* the texts of pubDate that have the format of line 13, and their times
ParsedDate ==
    ("Mon, 11 Jan 2021 00:05:18 GMT" :> 1)
        @@ ("Tue, 12 Jan 2021 00:05:18 GMT" :> 2)

\* i.PubDate.ParseWithFormat(dateFormat): the time of a text that has the
\* format, an error for any other text
ParseWithFormat(text) ==
    IF text \in DOMAIN ParsedDate
    THEN [time |-> ParsedDate[text], err |-> NoError]
    ELSE [time |-> 0, err |-> "parsing time \"" \o text \o "\""]

\* lines 32-49: ID and FeedID stay empty
rssToNativeArticle(i) ==
    LET publishDate == ParseWithFormat(i.PubDate)
    IN  IF publishDate.err # NoError
        THEN [res |-> NilArticle,
              err |-> "could not parse publish date: " \o publishDate.err]
        ELSE [res |-> Article(EmptyString, i.GUID, publishDate.time,
                              i.Category),
              err |-> NoError]

\* a wrong converter: an item that cannot be converted is left out
RECURSIVE ConvertFromSkippingBad(_, _, _)
ConvertFromSkippingBad(is, k, articles) ==
    IF k > Len(is)
    THEN [articles |-> articles, err |-> NoError]
    ELSE LET r == rssToNativeArticle(is[k])
         IN  IF r.err # NoError
             THEN ConvertFromSkippingBad(is, k + 1, articles)
             ELSE ConvertFromSkippingBad(is, k + 1, Append(articles, r.res))

\* the loop of lines 22-28 from the k-th item on
RECURSIVE ConvertFrom(_, _, _)
ConvertFrom(is, k, articles) ==
    IF k > Len(is)
    THEN [articles |-> articles, err |-> NoError]
    ELSE LET r == rssToNativeArticle(is[k])
         IN  IF r.err # NoError
             THEN [articles |-> NilArticles, err |-> r.err]
             ELSE ConvertFrom(is, k + 1, Append(articles, r.res))

\* lines 17-30
RSSToNativeArticles(is) ==
    IF Len(is) = 0
    THEN [articles |-> NilArticles, err |-> NoError]
    ELSE ConvertFrom(is, 1, <<>>)

\* Load: fetch is what rss.Read and rss.Regular make of the address, the
\* items of the channel or an error
Load(fetch) ==
    IF fetch.err # NoError
    THEN [articles |-> NilArticles, err |-> fetch.err]
    ELSE RSSToNativeArticles(fetch.items)

PubDates == DOMAIN ParsedDate \cup {""}

Items ==
    {[GUID |-> g, PubDate |-> d, Category |-> <<"c1">>] :
        g \in {"g1", "g2"}, d \in PubDates}

Fetches ==
    {[items |-> is, err |-> NoError] : is \in SeqsUpTo(MaxLoad, Items)}
        \cup {[items |-> <<>>, err |-> RandomError]}

\* Consume with the loader of the program and the store of the program
ConsumeFetched(feed, fetch) ==
    LET load == Load(fetch)
        r == ConsumeResult(a, m, feed, load, 0)
    IN  /\ ret = NoCall
        /\ a' = r.a
        /\ m' = r.m
        /\ ret' = [op |-> "Consume", feed |-> feed, fetch |-> fetch,
                   load |-> load, failAt |-> 0, err |-> r.err,
                   calls |-> r.calls, handed |-> r.handed]
        /\ pg' = NoPaging
        /\ UNCHANGED <<pc, arg, result, writer, readers, fm, fwriter, crashed>>

ConsumeAnyFetched ==
    \E feed \in ConsumedFeeds, fetch \in Fetches : ConsumeFetched(feed, fetch)

NextLoad ==
    \/ ConsumeAnyFetched
    \/ Reset
    \/ Discard

SpecLoad == Init /\ [][NextLoad]_vars

----------------------------------------------------------------------------
(* The handlers of the service, src/service/service.go:57-211, serving one  *)
(* request at a time                                                        *)

StatusOK == 200
StatusBadRequest == 400
StatusInternalServerError == 500

\* binding:"required" on a string field: the field must not be empty
\* (an identifier, and a provider, category or address)
Required(field) == field # EmptyString
RequiredText(field) == field # ""

InvalidArguments ==
    [status |-> StatusBadRequest, body |-> [error |-> "invalid arguments"]]

\* c.JSON(http.StatusInternalServerError, gin.H{"error": err.Error()})
Failed(err) == [status |-> StatusInternalServerError, body |-> [error |-> err]]

\* lines 78-98; args are the fields of the JSON body
createFeed(FM, args) ==
    IF ~(RequiredText(args.provider) /\ RequiredText(args.category)
            /\ RequiredText(args.address))
    THEN [fm |-> FM, response |-> InvalidArguments]
    ELSE LET r == FeedCreateResult(FM,
                      Feed(args.provider, args.category, args.address))
         IN  IF r.err # NoError
             THEN [fm |-> r.fm, response |-> Failed(r.err)]
             ELSE [fm |-> r.fm,
                   response |-> [status |-> StatusOK, body |-> r.res]]

\* lines 105-121
getFeed(FM, id) ==
    IF ~Required(id)
    THEN InvalidArguments
    ELSE LET r == FeedGet(FM, id)
         IN  IF r.err # NoError
             THEN Failed(r.err)
             ELSE [status |-> StatusOK, body |-> r.res]

\* lines 123-132: the responses the handler may give
listFeeds(FM) ==
    {IF r.err # NoError
     THEN Failed(r.err)
     ELSE [status |-> StatusOK, body |-> r.res] : r \in FeedList(FM)}

\* lines 139-161; load is what the loader returns for the feed's address.
\* When Consume succeeds the handler writes nothing: the response is the
\* router's 200 with an empty body.
loadFeed(S, M, FM, id, load) ==
    IF ~Required(id)
    THEN [a |-> S, m |-> M, response |-> InvalidArguments]
    ELSE LET f == FeedGet(FM, id)
         IN  IF f.err # NoError
             THEN [a |-> S, m |-> M, response |-> Failed(f.err)]
             ELSE LET r == ConsumeResult(S, M, f.res, load, 0)
                  IN  IF r.err # NoError
                      THEN [a |-> r.a, m |-> r.m, response |-> Failed(r.err)]
                      ELSE [a |-> r.a, m |-> r.m,
                            response |-> [status |-> StatusOK, body |-> <<>>]]

\* lines 168-184
getArticle(M, id) ==
    IF ~Required(id)
    THEN InvalidArguments
    ELSE LET r == Get(M, id)
         IN  IF r.err # NoError
             THEN Failed(r.err)
             ELSE [status |-> StatusOK, body |-> r.res]

\* lines 194-211; wellFormed: the query string binds to ListArgs
listArticles(S, wellFormed, cursor, pageSize, feed, categories) ==
    IF ~wellFormed
    THEN InvalidArguments
    ELSE LET r == List(S, cursor, pageSize, feed, categories)
         IN  IF r.err # NoError
             THEN Failed(r.err)
             ELSE [status |-> StatusOK, body |-> r.res]

\* the requests
FeedArgs ==
    [provider : {"", "bbc"}, category : {"c1"},
     address : {"http://feed1", "http://feed2"}]

RequestIDs ==
    {EmptyString, <<"invalid_id">>, Feed1, Feed2}
        \cup {NewSHA1(uuidNamespace, g) : g \in LoadGUIDs}

ServedLoads == {load \in Loads : Len(load.articles) <= 1}

Respond(op, response) ==
    ret' = [op |-> op, status |-> response.status, body |-> response.body]

CreateFeedRequest ==
    \E args \in FeedArgs :
        LET r == createFeed(fm, args)
        IN  /\ ret = NoCall
            /\ fm' = r.fm
            /\ Respond("createFeed", r.response)
            /\ UNCHANGED <<a, m, pg, pc, arg, result, writer, readers,
                           fwriter, crashed>>

GetFeedRequest ==
    \E id \in RequestIDs :
        /\ ret = NoCall
        /\ Respond("getFeed", getFeed(fm, id))
        /\ UNCHANGED <<a, m, pg, pc, arg, result, writer, readers, fm,
                       fwriter, crashed>>

ListFeedsRequest ==
    \E response \in listFeeds(fm) :
        /\ ret = NoCall
        /\ Respond("listFeeds", response)
        /\ UNCHANGED <<a, m, pg, pc, arg, result, writer, readers, fm,
                       fwriter, crashed>>

LoadFeedRequest ==
    \E id \in RequestIDs, load \in ServedLoads :
        LET r == loadFeed(a, m, fm, id, load)
        IN  /\ ret = NoCall
            /\ a' = r.a
            /\ m' = r.m
            /\ Respond("loadFeed", r.response)
            /\ UNCHANGED <<pg, pc, arg, result, writer, readers, fm, fwriter,
                           crashed>>

GetArticleRequest ==
    \E id \in RequestIDs :
        /\ ret = NoCall
        /\ Respond("getArticle", getArticle(m, id))
        /\ UNCHANGED <<a, m, pg, pc, arg, result, writer, readers, fm,
                       fwriter, crashed>>

ListArticlesRequest ==
    \E wellFormed \in BOOLEAN, cursor \in RequestIDs,
       pageSize \in PageSizes :
        /\ ret = NoCall
        /\ Respond("listArticles",
                   listArticles(a, wellFormed, cursor, pageSize, EmptyString,
                                <<>>))
        /\ UNCHANGED <<a, m, pg, pc, arg, result, writer, readers, fm,
                       fwriter, crashed>>

NextService ==
    \/ CreateFeedRequest
    \/ GetFeedRequest
    \/ ListFeedsRequest
    \/ LoadFeedRequest
    \/ GetArticleRequest
    \/ ListArticlesRequest
    \/ Discard

SpecService == Init /\ [][NextService]_vars

----------------------------------------------------------------------------
(* Concurrent callers: one goroutine per call, interleaved at the accesses  *)
(* to the mutex, the slice and the map                                      *)

Procs == {"p1", "p2"}
ConcGUIDs == {"g1", "g2"}

ConcInputs ==
    {Article(Feed1, g, d, <<"c1">>) : g \in ConcGUIDs, d \in 1..ConcMaxDate}

InitConc ==
    /\ a = EmptySlice
    /\ m = EmptyMap
    /\ ret = NoCall
    /\ pg = NoPaging
    /\ pc = [p \in Procs |-> "idle"]
    /\ arg = [p \in Procs |-> NilArticle]
    /\ result = [p \in Procs |-> NoCall]
    /\ writer = None
    /\ readers = {}
    /\ crashed = FALSE
    /\ fm = EmptyFeedMap
    /\ fwriter = None

\* the calls to Create that have not returned
CreatesInFlight == {q \in Procs : pc[q] \in {"check", "lock", "insert"}}

\* Create is entered with a non-nil article (lines 40-44); the next
\* statement of the goroutine is the lookup of line 45
CallCreate(p, article) ==
    /\ ~crashed
    /\ pc[p] = "idle"
    /\ Len(a) + Cardinality(CreatesInFlight) < MaxLen
    /\ pc' = [pc EXCEPT ![p] = "check"]
    /\ arg' = [arg EXCEPT ![p] = article]
    /\ UNCHANGED <<a, m, ret, pg, result, writer, readers, fm, fwriter, crashed>>

\* lines 45-48: the lookup in the map, made before as.mu.Lock()
CreateCheck(p) ==
    /\ ~crashed
    /\ pc[p] = "check"
    /\ IF GeneratedID(arg[p]) \in DOMAIN m
       THEN /\ result' = [result EXCEPT ![p] =
                   [op |-> "Create", res |-> m[GeneratedID(arg[p])],
                    err |-> NoError]]
            /\ pc' = [pc EXCEPT ![p] = "idle"]
            /\ arg' = [arg EXCEPT ![p] = NilArticle]
       ELSE /\ arg' = [arg EXCEPT ![p].ID = GeneratedID(arg[p])]
            /\ pc' = [pc EXCEPT ![p] = "lock"]
            /\ UNCHANGED result
    /\ UNCHANGED <<a, m, ret, pg, writer, readers, fm, fwriter, crashed>>

\* the lookup of line 45 runs while another goroutine writes the map at
\* line 57, 64 or 74: a data race, which the Go runtime may answer with
\* "fatal error: concurrent map read and map write"; the other outcomes are
\* those of CreateCheck before or after the write
CreateCheckRace(p) ==
    /\ ~crashed
    /\ pc[p] = "check"
    /\ writer \in Procs \ {p}
    /\ pc[writer] = "insert"
    /\ crashed' = TRUE
    /\ UNCHANGED <<a, m, ret, pg, pc, arg, result, writer, readers, fm, fwriter>>

\* a wrong Lock: it does not wait for the readers to leave
CreateLockDespiteReaders(p) ==
    /\ ~crashed
    /\ pc[p] = "lock"
    /\ writer = None
    /\ writer' = p
    /\ pc' = [pc EXCEPT ![p] = "insert"]
    /\ UNCHANGED <<a, m, ret, pg, arg, result, readers, fm, fwriter, crashed>>

\* line 49: as.mu.Lock()
CreateLock(p) ==
    /\ ~crashed
    /\ pc[p] = "lock"
    /\ writer = None
    /\ readers = {}
    /\ writer' = p
    /\ pc' = [pc EXCEPT ![p] = "insert"]
    /\ UNCHANGED <<a, m, ret, pg, arg, result, readers, fm, fwriter, crashed>>

\* lines 51-78 and the deferred as.mu.Unlock()
CreateInsert(p) ==
    LET st == CreateLocked(a, m, arg[p])
    IN  /\ ~crashed
        /\ pc[p] = "insert"
        /\ a' = st.a
        /\ m' = st.m
        /\ writer' = None
        /\ result' = [result EXCEPT ![p] =
               [op |-> "Create", res |-> arg[p], err |-> NoError]]
        /\ pc' = [pc EXCEPT ![p] = "idle"]
        /\ arg' = [arg EXCEPT ![p] = NilArticle]
        /\ pg' = NoPaging
        /\ UNCHANGED <<ret, readers, fm, fwriter, crashed>>

\* Reset, line 31: as.mu.Lock()
ResetLock(p) ==
    /\ ~crashed
    /\ pc[p] = "idle"
    /\ writer = None
    /\ readers = {}
    /\ writer' = p
    /\ pc' = [pc EXCEPT ![p] = "reset"]
    /\ UNCHANGED <<a, m, ret, pg, arg, result, readers, fm, fwriter, crashed>>

\* Reset, lines 33-34 and the deferred as.mu.Unlock()
ResetClear(p) ==
    /\ ~crashed
    /\ pc[p] = "reset"
    /\ a' = EmptySlice
    /\ m' = EmptyMap
    /\ writer' = None
    /\ result' = [result EXCEPT ![p] = [op |-> "Reset"]]
    /\ pc' = [pc EXCEPT ![p] = "idle"]
    /\ pg' = NoPaging
    /\ UNCHANGED <<ret, arg, readers, fm, fwriter, crashed>>

\* List called by the paging client while goroutines create and reset:
\* lines 93-94 take the reader lock, which no writer may hold, and the whole
\* call runs under it.  A write to the store ends the client's run; the
\* client gives up once it holds more than MaxLen articles.
PageLocked(cursor, pageSize, got) ==
    /\ ~crashed
    /\ writer = None
    /\ Len(got) <= MaxLen
    /\ pg' = PagerAfter(List(a, cursor, pageSize, EmptyString, <<>>),
                        cursor, pageSize, got)
    /\ UNCHANGED <<a, m, ret, pc, arg, result, writer, readers, fm, fwriter, crashed>>

FirstPageLocked ==
    /\ pg.state # "paging"
    /\ \E pageSize \in 1..MaxPageSize : PageLocked(EmptyString, pageSize, <<>>)

NextPageLocked ==
    /\ pg.state = "paging"
    /\ PageLocked(pg.cursor, pg.pageSize, pg.got)

NextConc ==
    \/ \E p \in Procs, article \in ConcInputs : CallCreate(p, article)
    \/ \E p \in Procs : CreateCheck(p)
    \/ \E p \in Procs : CreateCheckRace(p)
    \/ \E p \in Procs : CreateLock(p)
    \/ \E p \in Procs : CreateInsert(p)
    \/ \E p \in Procs : ResetLock(p)
    \/ \E p \in Procs : ResetClear(p)
    \/ FirstPageLocked
    \/ NextPageLocked

SpecConc == InitConc /\ [][NextConc]_vars

----------------------------------------------------------------------------
(* Concurrent callers that read: List and Get step by step, next to Create  *)
(* and Reset                                                                *)

ReadInputs == {Article(Feed1, g, 1, <<"c1">>) : g \in ConcGUIDs}
ReadIDs == {NewSHA1(uuidNamespace, g) : g \in ConcGUIDs}
ReadCursors == {EmptyString} \cup ReadIDs

\* List, lines 88-93: the filter set is built, then as.mu.RLock() is taken,
\* which waits while a writer holds the mutex; seen is the slice at that
\* instant, kept to compare the result with
ListRLock(p, cursor, pageSize) ==
    /\ ~crashed
    /\ pc[p] = "idle"
    /\ writer = None
    /\ readers' = readers \cup {p}
    /\ pc' = [pc EXCEPT ![p] = "resolve"]
    /\ arg' = [arg EXCEPT ![p] =
           [cursor |-> cursor, pageSize |-> pageSize, seen |-> a]]
    /\ result' = [result EXCEPT ![p] = NoCall]
    /\ UNCHANGED <<a, m, ret, pg, writer, fm, fwriter, crashed>>

\* lines 96-99: the cursor is resolved; when it is not found the call
\* returns and the deferred as.mu.RUnlock() runs
ListResolve(p) ==
    LET first == findArticleCursorIndex(a, arg[p].cursor)
    IN  /\ ~crashed
        /\ pc[p] = "resolve"
        /\ IF first.ok
           THEN /\ pc' = [pc EXCEPT ![p] = "walk"]
                /\ arg' = [arg EXCEPT ![p] =
                       [cursor |-> arg[p].cursor,
                        pageSize |-> arg[p].pageSize,
                        seen |-> arg[p].seen, idx |-> first.idx]]
                /\ UNCHANGED <<result, readers>>
           ELSE /\ pc' = [pc EXCEPT ![p] = "idle"]
                /\ result' = [result EXCEPT ![p] =
                       [op |-> "List", page |-> <<>>,
                        err |-> ErrCursorNotFound]]
                /\ readers' = readers \ {p}
                /\ arg' = [arg EXCEPT ![p] = NilArticle]
        /\ UNCHANGED <<a, m, ret, pg, writer, fm, fwriter, crashed>>

\* lines 100-133: the walk from the resolved index, the return and the
\* deferred as.mu.RUnlock()
ListWalkUnlock(p) ==
    /\ ~crashed
    /\ pc[p] = "walk"
    /\ result' = [result EXCEPT ![p] =
           [op |-> "List",
            page |-> ListWalk(a, arg[p].idx, 0, <<>>, arg[p].pageSize,
                              EmptyString, {}),
            err |-> NoError]]
    /\ readers' = readers \ {p}
    /\ pc' = [pc EXCEPT ![p] = "idle"]
    /\ arg' = [arg EXCEPT ![p] = NilArticle]
    /\ UNCHANGED <<a, m, ret, pg, writer, fm, fwriter, crashed>>

\* Get, lines 138-142: with a non-empty ID as.mu.RLock() is taken
GetRLock(p, id) ==
    /\ ~crashed
    /\ pc[p] = "idle"
    /\ id # EmptyString
    /\ writer = None
    /\ readers' = readers \cup {p}
    /\ pc' = [pc EXCEPT ![p] = "get"]
    /\ arg' = [arg EXCEPT ![p] = [id |-> id]]
    /\ result' = [result EXCEPT ![p] = NoCall]
    /\ UNCHANGED <<a, m, ret, pg, writer, fm, fwriter, crashed>>

\* Get, lines 143-146, the return and the deferred as.mu.RUnlock()
GetReadUnlock(p) ==
    LET r == Get(m, arg[p].id)
    IN  /\ ~crashed
        /\ pc[p] = "get"
        /\ result' = [result EXCEPT ![p] =
               [op |-> "Get", res |-> r.res, err |-> r.err]]
        /\ readers' = readers \ {p}
        /\ pc' = [pc EXCEPT ![p] = "idle"]
        /\ arg' = [arg EXCEPT ![p] = NilArticle]
        /\ UNCHANGED <<a, m, ret, pg, writer, fm, fwriter, crashed>>

\* the steps a goroutine takes once its call is made
Proceed(p) ==
    \/ CreateCheck(p)
    \/ CreateCheckRace(p)
    \/ CreateLock(p)
    \/ CreateInsert(p)
    \/ ResetClear(p)
    \/ ListResolve(p)
    \/ ListWalkUnlock(p)
    \/ GetReadUnlock(p)

NextRead ==
    \/ \E p \in Procs, article \in ReadInputs : CallCreate(p, article)
    \/ \E p \in Procs : ResetLock(p)
    \/ \E p \in Procs, cursor \in ReadCursors, pageSize \in PageSizes :
          ListRLock(p, cursor, pageSize)
    \/ \E p \in Procs, id \in ReadIDs : GetRLock(p, id)
    \/ \E p \in Procs : Proceed(p)

SpecRead == InitConc /\ [][NextRead]_vars

\* The scheduler runs every goroutine that can take a step, and the mutex
\* hands the lock to a goroutine that keeps asking for it (sync.Mutex
\* leaves no waiter behind for good); the calls themselves are made or not
\* as the callers please.
SpecLive ==
    /\ InitConc
    /\ [][NextRead]_vars
    /\ \A p \in Procs : WF_vars(Proceed(p)) /\ SF_vars(CreateLock(p))

----------------------------------------------------------------------------
(* Concurrent callers of the feed store *)

FeedConcKeys == {"g1", "g2"}

FeedConcInputs ==
    {Feed(provider, "c1", address) :
        provider \in Providers, address \in FeedConcKeys}

InitFeedConc ==
    /\ a = EmptySlice
    /\ m = EmptyMap
    /\ ret = NoCall
    /\ pg = NoPaging
    /\ pc = [p \in Procs |-> "idle"]
    /\ arg = [p \in Procs |-> NilFeed]
    /\ result = [p \in Procs |-> NoCall]
    /\ writer = None
    /\ readers = {}
    /\ crashed = FALSE
    /\ fm = EmptyFeedMap
    /\ fwriter = None

\* FeedStore.Create is entered with a non-nil feed (lines 35-38)
CallFeedCreate(p, feed) ==
    /\ ~crashed
    /\ pc[p] = "idle"
    /\ pc' = [pc EXCEPT ![p] = "check"]
    /\ arg' = [arg EXCEPT ![p] = feed]
    /\ result' = [result EXCEPT ![p] = NoCall]
    /\ UNCHANGED <<a, m, ret, pg, writer, readers, fm, fwriter, crashed>>

\* lines 39-43: the lookup in the map, made before fs.mu.Lock()
FeedCreateCheck(p) ==
    /\ ~crashed
    /\ pc[p] = "check"
    /\ IF FeedGeneratedID(arg[p]) \in DOMAIN fm
       THEN /\ result' = [result EXCEPT ![p] =
                   [op |-> "FeedCreate", res |-> fm[FeedGeneratedID(arg[p])],
                    err |-> NoError]]
            /\ pc' = [pc EXCEPT ![p] = "idle"]
            /\ arg' = [arg EXCEPT ![p] = NilFeed]
       ELSE /\ arg' = [arg EXCEPT ![p].ID = FeedGeneratedID(arg[p])]
            /\ pc' = [pc EXCEPT ![p] = "lock"]
            /\ UNCHANGED result
    /\ UNCHANGED <<a, m, ret, pg, writer, readers, fm, fwriter, crashed>>

\* the lookup of line 40 runs while another goroutine writes the map at
\* line 46: a data race, which the Go runtime may answer with
\* "fatal error: concurrent map read and map write"; the other outcomes are
\* those of FeedCreateCheck before or after the write
FeedCreateCheckRace(p) ==
    /\ ~crashed
    /\ pc[p] = "check"
    /\ fwriter \in Procs \ {p}
    /\ pc[fwriter] = "insert"
    /\ crashed' = TRUE
    /\ UNCHANGED <<a, m, ret, pg, pc, arg, result, writer, readers, fm,
                   fwriter>>

\* line 44: fs.mu.Lock()
FeedCreateLock(p) ==
    /\ ~crashed
    /\ pc[p] = "lock"
    /\ fwriter = None
    /\ fwriter' = p
    /\ pc' = [pc EXCEPT ![p] = "insert"]
    /\ UNCHANGED <<a, m, ret, pg, arg, result, writer, readers, fm, crashed>>

\* lines 46-47 and the deferred fs.mu.Unlock()
FeedCreateInsert(p) ==
    /\ ~crashed
    /\ pc[p] = "insert"
    /\ fm' = MapSet(fm, arg[p].ID, arg[p])
    /\ fwriter' = None
    /\ result' = [result EXCEPT ![p] =
           [op |-> "FeedCreate", res |-> arg[p], err |-> NoError]]
    /\ pc' = [pc EXCEPT ![p] = "idle"]
    /\ arg' = [arg EXCEPT ![p] = NilFeed]
    /\ UNCHANGED <<a, m, ret, pg, writer, readers, crashed>>

\* Reset, line 29: fs.mu.Lock()
FeedResetLock(p) ==
    /\ ~crashed
    /\ pc[p] = "idle"
    /\ fwriter = None
    /\ fwriter' = p
    /\ pc' = [pc EXCEPT ![p] = "reset"]
    /\ result' = [result EXCEPT ![p] = NoCall]
    /\ UNCHANGED <<a, m, ret, pg, arg, writer, readers, fm, crashed>>

\* Reset, line 31 and the deferred fs.mu.Unlock()
FeedResetClear(p) ==
    /\ ~crashed
    /\ pc[p] = "reset"
    /\ fm' = EmptyFeedMap
    /\ fwriter' = None
    /\ result' = [result EXCEPT ![p] = [op |-> "FeedReset"]]
    /\ pc' = [pc EXCEPT ![p] = "idle"]
    /\ UNCHANGED <<a, m, ret, pg, arg, writer, readers, crashed>>

NextFeedConc ==
    \/ \E p \in Procs, feed \in FeedConcInputs : CallFeedCreate(p, feed)
    \/ \E p \in Procs : FeedCreateCheck(p)
    \/ \E p \in Procs : FeedCreateCheckRace(p)
    \/ \E p \in Procs : FeedCreateLock(p)
    \/ \E p \in Procs : FeedCreateInsert(p)
    \/ \E p \in Procs : FeedResetLock(p)
    \/ \E p \in Procs : FeedResetClear(p)

SpecFeedConc == InitFeedConc /\ [][NextFeedConc]_vars

----------------------------------------------------------------------------
(* Properties of the order of the slice *)

Stored == {m[id] : id \in DOMAIN m}

NonDescending(S) ==
    \A i, j \in DOMAIN S : i < j => S[i].PublishDate <= S[j].PublishDate

ListedEverything ==
    /\ ret.op = "List"
    /\ ret.cursor = EmptyString
    /\ ret.pageSize = 0
    /\ ret.feed = EmptyString
    /\ ret.categories = <<>>

\* C1: after any sequence of Create and Reset calls, List with the empty
\* cursor, page size 0 and no filters returns without error all the stored
\* articles, in non-descending order of publish timestamp.
C1_SortInvariant ==
    ListedEverything =>
        /\ ret.err = NoError
        /\ Len(ret.res) = Cardinality(DOMAIN m)
        /\ \A x \in Stored : \E i \in DOMAIN ret.res : ret.res[i] = x
        /\ NonDescending(ret.res)

\* three articles with three different timestamps were listed
C1_Witness ==
    /\ ListedEverything
    /\ Len(ret.res) >= 3
    /\ ret.res[1].PublishDate < ret.res[2].PublishDate
    /\ ret.res[2].PublishDate < ret.res[Len(ret.res)].PublishDate

\* the step is a Create call with an article whose GUID is already stored
CreateOfStoredGUID ==
    /\ ret'.op = "Create"
    /\ ret'.article # NilArticle
    /\ \E i \in DOMAIN a : a[i].GUID = ret'.article.GUID

\* C2: a Create call with an article whose GUID is already stored returns
\* the article stored under that GUID and no error, and leaves the slice and
\* the index as they were.
C2_IdempotentCreate ==
    [][CreateOfStoredGUID =>
          /\ \E i \in DOMAIN a :
                a[i].GUID = ret'.article.GUID /\ ret'.res = a[i]
          /\ ret'.err = NoError
          /\ a' = a
          /\ m' = m]_vars

\* a Create returned a stored article that differs from the one passed in
C2_Witness ==
    /\ ret.op = "Create"
    /\ ret.path = "duplicate"
    /\ ret.res.GUID = ret.article.GUID
    /\ ret.res.PublishDate # ret.article.PublishDate
    /\ \E i \in DOMAIN a : a[i] = ret.res

\* the step is a Create call that stored a new article
CreateStoredNew ==
    /\ ret'.op = "Create"
    /\ Len(a') = Len(a) + 1
    /\ ~\E i \in DOMAIN a : a[i].ID = ret'.res.ID

PlacedAfterEveryTie ==
    \A k, j \in DOMAIN a' :
        (a'[k].ID = ret'.res.ID /\ j # k
            /\ a'[j].PublishDate = a'[k].PublishDate) => j < k

PlacedBeforeEveryTie ==
    \A k, j \in DOMAIN a' :
        (a'[k].ID = ret'.res.ID /\ j # k
            /\ a'[j].PublishDate = a'[k].PublishDate) => k < j

\* C7 as stated: a new article is placed after every stored article with an
\* equal publish timestamp, whichever insertion path is taken.
C7_TieBreakByInsertionOrder ==
    [][CreateStoredNew => PlacedAfterEveryTie]_vars

\* C7 amended: a new article is placed after every stored article with an
\* equal publish timestamp when its timestamp is not earlier than that of the
\* last stored article (append), and before every stored article with an
\* equal timestamp otherwise (prepend, backward scan).
C7_TieBreakByPath ==
    [][CreateStoredNew =>
          IF a = <<>> \/ ret'.res.PublishDate >= a[Len(a)].PublishDate
          THEN PlacedAfterEveryTie
          ELSE PlacedBeforeEveryTie]_vars

\* the backward scan put a new article in front of a stored one with the
\* same timestamp
C7_Witness ==
    /\ ret.op = "Create"
    /\ ret.path = "scan"
    /\ \E k \in DOMAIN a :
          /\ a[k] = ret.res
          /\ 1 < k /\ k < Len(a)
          /\ a[k + 1].PublishDate = a[k].PublishDate

\* the step is a Create call with a non-nil article whose identifier is
\* not in the index
CreateOfNewIdentifier ==
    /\ ret'.op = "Create"
    /\ ret'.article # NilArticle
    /\ GeneratedID(ret'.article) \notin DOMAIN m

\* C29: a Create of a non-nil article whose identifier is not in the index
\* leaves the slice one element longer and the index one key larger, the
\* returned article is in both and Get of its identifier returns it; the
\* insertion is made by one of the three paths, and by the backward scan
\* only when the slice held at least two articles.
C29_CreateStores ==
    [][CreateOfNewIdentifier =>
          /\ ret'.err = NoError
          /\ Len(a') = Len(a) + 1
          /\ Cardinality(DOMAIN m') = Cardinality(DOMAIN m) + 1
          /\ \E i \in DOMAIN a' : a'[i] = ret'.res
          /\ ret'.res.ID \in DOMAIN m' /\ m'[ret'.res.ID] = ret'.res
          /\ Get(m', ret'.res.ID) = [res |-> ret'.res, err |-> NoError]
          /\ ret'.path \in {"append", "prepend", "scan"}
          /\ ret'.path = "scan" => Len(a) >= 2]_vars

\* a new article was put in front of two stored ones
C29_Witness ==
    /\ ret.op = "Create"
    /\ ret.path = "prepend"
    /\ Len(a) = 3
    /\ a[1] = ret.res
    /\ m[ret.res.ID] = ret.res

\* S without its k-th element
Without(S, k) == SubSeq(S, 1, k - 1) \o SubSeq(S, k + 1, Len(S))

\* C30: a Create that inserts a new article leaves every article that was
\* stored in the slice, each once and in the order they had: the slice
\* without the new element is the slice as it was.
C30_InsertionOnlyShifts ==
    [][(ret'.op = "Create" /\ ret'.path \in {"append", "prepend", "scan"}) =>
          \E k \in DOMAIN a' :
              /\ a'[k] = ret'.res
              /\ Without(a', k) = a]_vars

\* the backward scan put a new article between stored ones, two of them
\* after it
C30_Witness ==
    /\ ret.op = "Create"
    /\ ret.path = "scan"
    /\ Len(a) = 4
    /\ a[2] = ret.res

\* the stored articles whose GUID is the empty string
Unkeyed(S) == SelectSeq(S, LAMBDA x : x.GUID = "")

\* C35: Create of an article whose GUID is the empty string returns no
\* error and an article whose identifier is the one derived from the empty
\* key; when no such article is stored the article is stored, and when one
\* is stored it is returned and the slice and the index stay as they were,
\* whatever the other fields of the new article: the store never holds more
\* than one article with the empty GUID.
C35_EmptyGUIDsCollapse ==
    [][(ret'.op = "Create" /\ ret'.article # NilArticle
           /\ ret'.article.GUID = "") =>
          /\ ret'.err = NoError
          /\ ret'.res.ID = NewSHA1(uuidNamespace, "")
          /\ Len(Unkeyed(a')) = 1
          /\ IF Unkeyed(a) = <<>>
             THEN /\ Len(a') = Len(a) + 1
                  /\ Unkeyed(a')[1] =
                        [ret'.article EXCEPT !.ID = NewSHA1(uuidNamespace, "")]
                  /\ ret'.res = Unkeyed(a')[1]
             ELSE /\ a' = a
                  /\ m' = m
                  /\ ret'.res = Unkeyed(a)[1]]_vars

\* an article without GUID was handed to Create when one of another feed
\* and another date was stored, next to an article with a GUID: the stored
\* one was returned
C35_Witness ==
    /\ ret.op = "Create"
    /\ ret.article # NilArticle
    /\ ret.article.GUID = ""
    /\ ret.path = "duplicate"
    /\ ret.res.FeedID # ret.article.FeedID
    /\ ret.res.PublishDate # ret.article.PublishDate
    /\ Len(a) = 2
    /\ Len(Unkeyed(a)) = 1

----------------------------------------------------------------------------
(* Properties of Get, Reset and the identifiers *)

\* C12: Get with the empty id fails with 'invalid ID provided'; with a
\* non-empty id that is not in the index it fails with the different error
\* 'resource not found'; with an id of the index it returns without error
\* the stored article that has this identifier.
C12_GetOutcomes ==
    /\ ErrInvalidID # ErrNotFound
    /\ ret.op = "Get" =>
          /\ ret.id = EmptyString =>
                ret.err = ErrInvalidID /\ ret.res = NilArticle
          /\ (ret.id # EmptyString /\ ret.id \notin DOMAIN m) =>
                ret.err = ErrNotFound /\ ret.res = NilArticle
          /\ ret.id \in DOMAIN m =>
                /\ ret.err = NoError
                /\ ret.res.ID = ret.id
                /\ \E i \in DOMAIN a : a[i] = ret.res

\* Get of the identifier of a GUID that is not stored, on a store that holds
\* two other articles
C12_Witness ==
    /\ ret.op = "Get"
    /\ ret.id = NewSHA1(uuidNamespace, "g3")
    /\ ret.err = ErrNotFound
    /\ Len(a) = 2

\* C13: when Reset returns, the slice and the index are empty, List with
\* the empty cursor gives an empty result and no error, and Get of every
\* identifier that was in the index before fails with 'resource not found'.
C13_ResetClears ==
    [][ret'.op = "Reset" =>
          /\ a' = <<>>
          /\ DOMAIN m' = {}
          /\ List(a', EmptyString, 0, EmptyString, <<>>)
                = [res |-> <<>>, err |-> NoError]
          /\ \A id \in DOMAIN m :
                Get(m', id) = [res |-> NilArticle, err |-> ErrNotFound]]_vars

\* Reset returned on a store that held three articles
C13_Witness ==
    /\ ret.op = "Reset"
    /\ Cardinality(ret.valid) = 3
    /\ a = <<>>
    /\ DOMAIN m = {}

\* C15: every stored article has the identifier generated from the fixed
\* namespace and its own GUID, it is indexed under that identifier, and the
\* article a Create returns has the identifier generated from the GUID of
\* the article passed in, whatever identifier the caller had put there.
C15_DeterministicIdentity ==
    /\ \A i \in DOMAIN a : a[i].ID = NewSHA1(uuidNamespace, a[i].GUID)
    /\ \A id \in DOMAIN m : id = NewSHA1(uuidNamespace, m[id].GUID)
                                /\ m[id].ID = id
    /\ (ret.op = "Create" /\ ret.article # NilArticle) =>
          ret.res.ID = NewSHA1(uuidNamespace, ret.article.GUID)

\* an article that came with an identifier of the caller was stored next to
\* another one
C15_Witness ==
    /\ ret.op = "Create"
    /\ ret.article # NilArticle
    /\ ret.article.ID = PresetID
    /\ ret.path \in {"append", "prepend", "scan"}
    /\ Len(a) >= 2
    /\ \E i \in DOMAIN a : a[i] = ret.res

----------------------------------------------------------------------------
(* Properties of List *)

\* the stored articles that follow the article the cursor names
AfterCursor(cursor) ==
    IF cursor = EmptyString
    THEN a
    ELSE LET k == CHOOSE i \in DOMAIN a : a[i].ID = cursor
         IN  SubSeq(a, k + 1, Len(a))

CursorIsStored(cursor) == \E i \in DOMAIN a : a[i].ID = cursor

HasCategoryIn(x, categories) ==
    \E i \in DOMAIN x.Categories, j \in DOMAIN categories :
        x.Categories[i] = categories[j]

PassesCategories(x, categories) ==
    categories = <<>> \/ HasCategoryIn(x, categories)

PassesFeed(x, feed) == feed = EmptyString \/ x.FeedID = feed

IsPrefix(s, t) == Len(s) <= Len(t) /\ s = SubSeq(t, 1, Len(s))

ListReturned == ret.op = "List" /\ ret.err = NoError

\* C6: a client that starts with the empty cursor and calls List with page
\* size P > 0 and the identifier of the last article of the previous page as
\* cursor, with no write in between, never gets an error, has at every
\* moment received the stored articles in store order up to its cursor, and
\* when it receives the empty page it has received every stored article
\* exactly once.  (It holds of every store built by one caller at a time,
\* SpecList; a store that concurrent Create calls left with two articles
\* under one identifier breaks it.)
C6_CursorCorrectness ==
    /\ pg.state # "failed"
    /\ pg.state \in {"paging", "done"} => IsPrefix(pg.got, a)
    /\ pg.state = "paging" => pg.cursor = a[Len(pg.got)].ID
    /\ pg.state = "done" => pg.got = a

\* C8: List with a non-empty cursor that is the identifier of no stored
\* article returns the cursor-not-found error and a nil result, whatever the
\* page size and the filters.
C8_CursorNotFound ==
    (ret.op = "List" /\ ret.cursor # EmptyString
        /\ ~CursorIsStored(ret.cursor)) =>
            /\ ret.err = ErrCursorNotFound
            /\ ret.res = <<>>

\* the identifier of an article that is not stored was used as cursor on a
\* store that holds articles, with a page size and both filters
C8_Witness ==
    /\ ret.op = "List"
    /\ ret.err = ErrCursorNotFound
    /\ ret.cursor = NewSHA1(uuidNamespace, "g2")
    /\ Len(a) = 2
    /\ ret.pageSize > 0
    /\ ret.feed # EmptyString
    /\ ret.categories # <<>>

\* C9: with a non-empty set of categories List returns only articles that
\* have at least one category in the set, and with page size 0 and no feed
\* filter all of those that follow the cursor; with no categories and no
\* feed filter it returns every article that follows the cursor.
C9_CategoryFilter ==
    ListReturned =>
        /\ ret.categories # <<>> =>
              \A i \in DOMAIN ret.res :
                  /\ Len(ret.res[i].Categories) > 0
                  /\ HasCategoryIn(ret.res[i], ret.categories)
        /\ (ret.pageSize = 0 /\ ret.feed = EmptyString) =>
              LET Pass(x) == PassesCategories(x, ret.categories)
              IN  ret.res = SelectSeq(AfterCursor(ret.cursor), Pass)

\* a filter of two categories returned an article that has one of them and
\* left out an article without categories and one with another category
C9_Witness ==
    /\ ListReturned
    /\ ret.categories = <<"c2", "c3">>
    /\ ret.feed = EmptyString
    /\ Len(ret.res) = 1
    /\ ret.res[1].Categories = <<"c1", "c2">>
    /\ \E i \in DOMAIN AfterCursor(ret.cursor) :
          AfterCursor(ret.cursor)[i].Categories = <<>>

\* C10: List returns, in store order, articles that follow the cursor and
\* pass both the feed filter (feed identifier equal to a non-empty filter)
\* and the category filter: all of them with page size 0, a prefix of them
\* otherwise; an empty feed filter excludes nothing.
C10_FeedFilter ==
    ListReturned =>
        LET Pass(x) == PassesFeed(x, ret.feed)
                          /\ PassesCategories(x, ret.categories)
            matching == SelectSeq(AfterCursor(ret.cursor), Pass)
        IN  /\ IsPrefix(ret.res, matching)
            /\ ret.pageSize = 0 => ret.res = matching

\* a feed filter together with a category filter returned one article and
\* left out one of another feed and one of the same feed without the category
C10_Witness ==
    /\ ListReturned
    /\ ret.feed = Feed1
    /\ ret.categories = <<"c1">>
    /\ ret.pageSize = 0
    /\ Len(ret.res) = 1
    /\ \E i \in DOMAIN a : a[i].FeedID = Feed2
    /\ \E i \in DOMAIN a : a[i].FeedID = Feed1 /\ a[i].Categories = <<"c2">>

\* C11: List returns the first min(pageSize, number of matches) articles
\* that follow the cursor and pass the filters when pageSize > 0, never more
\* than pageSize, and all of them when pageSize = 0.
C11_PageSize ==
    ListReturned =>
        LET Pass(x) == PassesFeed(x, ret.feed)
                          /\ PassesCategories(x, ret.categories)
            matching == SelectSeq(AfterCursor(ret.cursor), Pass)
            n == IF ret.pageSize > 0 /\ ret.pageSize < Len(matching)
                 THEN ret.pageSize
                 ELSE Len(matching)
        IN  /\ ret.res = SubSeq(matching, 1, n)
            /\ ret.pageSize > 0 => Len(ret.res) <= ret.pageSize

\* a page of one article was cut out of at least two matches of a feed filter
C11_Witness ==
    /\ ListReturned
    /\ ret.pageSize = 1
    /\ ret.cursor = EmptyString
    /\ ret.feed = Feed1
    /\ Len(ret.res) = 1
    /\ \E i, j \in DOMAIN a :
          i < j /\ a[i].FeedID = Feed1 /\ a[j].FeedID = Feed1
              /\ ret.res[1] = a[i]

\* no stored article after the cursor passes both filters
NothingToList(cursor, feed, categories) ==
    LET rest == AfterCursor(cursor)
    IN  \A i \in DOMAIN rest :
            ~(PassesFeed(rest[i], feed) /\ PassesCategories(rest[i], categories))

\* C31: List with the empty cursor, or with a cursor that is the identifier
\* of a stored article, returns no error, whatever the page size and the
\* filters; when the store is empty, when no article after the cursor
\* passes the filters, or when the cursor names the last article, the result
\* is empty and there is still no error.
C31_ListNeverFailsOnResolvedCursor ==
    (ret.op = "List"
        /\ (ret.cursor = EmptyString \/ CursorIsStored(ret.cursor))) =>
            /\ ret.err = NoError
            /\ NothingToList(ret.cursor, ret.feed, ret.categories) =>
                   ret.res = <<>>

\* the cursor named the last of two stored articles and the call, with a
\* page size and no filter, returned the empty page and no error
C31_Witness ==
    /\ ret.op = "List"
    /\ Len(a) = 2
    /\ ret.cursor = a[2].ID
    /\ ret.pageSize > 0
    /\ ret.feed = EmptyString
    /\ ret.categories = <<>>
    /\ ret.res = <<>>
    /\ ret.err = NoError

\* a filter that no stored article passes gave the empty page and no error
C31_WitnessFilter ==
    /\ ret.op = "List"
    /\ Len(a) = 2
    /\ ret.cursor = EmptyString
    /\ ret.categories = <<"c3">>
    /\ ret.res = <<>>
    /\ ret.err = NoError

\* the filters of the paging client; a client that pages without filters
\* has the empty feed filter and no categories
PagerFeed == IF "feed" \in DOMAIN pg THEN pg.feed ELSE EmptyString
PagerCategories == IF "categories" \in DOMAIN pg THEN pg.categories ELSE <<>>

\* the articles of S that pass both filters, in the order of S
Matching(S, feed, categories) ==
    LET Pass(x) == PassesFeed(x, feed) /\ PassesCategories(x, categories)
    IN  SelectSeq(S, Pass)

\* the article the cursor names does not pass the filters
CursorIsExcluded(cursor, feed, categories) ==
    \E i \in DOMAIN a :
        /\ a[i].ID = cursor
        /\ ~(PassesFeed(a[i], feed) /\ PassesCategories(a[i], categories))

\* C32: a client that pages with a fixed feed filter, fixed categories and
\* page size P > 0, from the empty cursor and then with the identifier of
\* the last article returned, with no write in between, never gets an
\* error, has at every moment received the matching articles in store order
\* up to its cursor, and when it receives the empty page it has received
\* every matching article exactly once; and List with a cursor that names a
\* stored article the filters leave out returns no error and the matching
\* articles that follow that article.  (It holds of every store built by
\* one caller at a time, SpecFiltered; a store that concurrent Create calls
\* left with two articles under one identifier breaks it.)
C32_FilteredPagination ==
    LET matching == Matching(a, PagerFeed, PagerCategories)
    IN  /\ pg.state # "failed"
        /\ pg.state \in {"paging", "done"} => IsPrefix(pg.got, matching)
        /\ pg.state = "done" => pg.got = matching
        /\ (ret.op = "List"
               /\ CursorIsExcluded(ret.cursor, ret.feed, ret.categories)) =>
              LET rest == Matching(AfterCursor(ret.cursor), ret.feed,
                                   ret.categories)
                  n == IF ret.pageSize > 0 /\ ret.pageSize < Len(rest)
                       THEN ret.pageSize
                       ELSE Len(rest)
              IN  /\ ret.err = NoError
                  /\ ret.res = SubSeq(rest, 1, n)

\* a client with a feed filter received the empty page after two pages of
\* one article each, on a store that holds an article of another feed
\* between the two
C32_WitnessPaged ==
    /\ pg.state = "done"
    /\ PagerFeed = Feed1
    /\ pg.pageSize = 1
    /\ Len(pg.got) = 2
    /\ Len(a) = 3
    /\ a[2].FeedID = Feed2

\* the cursor named a stored article of another feed and the call returned
\* the article of the filter's feed that follows it
C32_WitnessExcluded ==
    /\ ret.op = "List"
    /\ ret.feed = Feed1
    /\ Len(a) = 3
    /\ ret.cursor = a[2].ID
    /\ a[2].FeedID = Feed2
    /\ ret.res = <<a[3]>>

\* C36: List with a page size below zero and a cursor that resolves returns
\* every article that follows the cursor and passes the filters, in store
\* order, which is what List returns for the same cursor and filters with
\* page size 0.
C36_NegativePageSizeIsNoLimit ==
    (ListReturned /\ ret.pageSize < 0) =>
        /\ ret.res = Matching(AfterCursor(ret.cursor), ret.feed,
                              ret.categories)
        /\ ret.res = List(a, ret.cursor, 0, ret.feed, ret.categories).res

\* a call with page size -1 and a feed filter returned two articles and
\* left out one of another feed
C36_Witness ==
    /\ ListReturned
    /\ ret.pageSize = 0 - 1
    /\ ret.cursor = EmptyString
    /\ ret.feed = Feed1
    /\ Len(ret.res) = 2
    /\ Len(a) = 3

\* List with this cursor, over every page size and filter, in store S
Resolves(S, cursor) ==
    \A pageSize \in PageSizes, feed \in FeedFilters,
       categories \in CategoryFilters :
        List(S, cursor, pageSize, feed, categories).err = NoError

Lost(S, cursor) ==
    \A pageSize \in PageSizes, feed \in FeedFilters,
       categories \in CategoryFilters :
        List(S, cursor, pageSize, feed, categories)
            = [res |-> <<>>, err |-> ErrCursorNotFound]

\* C37: a List call made after a Reset with the identifier of an article
\* that was stored before the Reset returns the cursor-not-found error and
\* a nil result; after every Reset every such identifier is lost as a
\* cursor; and a non-empty cursor that is lost resolves after a step if and
\* only if the step is a Create of an article whose GUID generates it.
C37_CursorLostByReset ==
    [][/\ (ret'.op = "List" /\ "valid" \in DOMAIN ret') =>
              /\ ret'.cursor \in ret'.valid
              /\ ret'.err = ErrCursorNotFound
              /\ ret'.res = <<>>
       /\ ret'.op = "Reset" =>
              \A cursor \in ret'.valid :
                  Resolves(a, cursor) /\ Lost(a', cursor)
       /\ \A cursor \in Cursors \ {EmptyString} :
              Lost(a, cursor) =>
                  IF /\ ret'.op = "Create"
                     /\ ret'.article # NilArticle
                     /\ GeneratedID(ret'.article) = cursor
                  THEN Resolves(a', cursor)
                  ELSE Lost(a', cursor)]_vars

\* after a Reset of a store that held two articles, List with the
\* identifier of one of them and page size 0 returned the error
C37_Witness ==
    /\ ret.op = "List"
    /\ "valid" \in DOMAIN ret
    /\ Cardinality(ret.valid) = 2
    /\ ret.cursor \in ret.valid
    /\ ret.pageSize = 0
    /\ ret.err = ErrCursorNotFound
    /\ a = <<>>

----------------------------------------------------------------------------
(* Properties of the feed store *)

WithAddress(l, address) == {i \in DOMAIN l : l[i].Address = address}

\* C17: a FeedStore.Create of a feed whose address is stored returns the
\* stored feed and leaves the map as it was, and every List that follows
\* holds exactly one feed of that address; for a new address the feed is
\* given the identifier generated from its address, stored under it next to
\* the feeds already there, and returned.
C17_FeedCreateIdempotent ==
    [][(ret'.op = "FeedCreate" /\ ret'.feed # NilFeed) =>
          LET id == NewSHA1(uuidNamespace, ret'.feed.Address)
          IN  /\ ret'.err = NoError
              /\ id \in DOMAIN fm =>
                    /\ ret'.res = fm[id]
                    /\ fm' = fm
              /\ id \notin DOMAIN fm =>
                    /\ ret'.res = [ret'.feed EXCEPT !.ID = id]
                    /\ DOMAIN fm' = DOMAIN fm \cup {id}
                    /\ fm'[id] = ret'.res
                    /\ \A other \in DOMAIN fm : fm'[other] = fm[other]
              /\ \A l \in FeedList(fm') :
                    Cardinality(WithAddress(l.res, ret'.feed.Address)) = 1]_vars

\* Create of a stored address with another provider, next to a second feed
C17_Witness ==
    /\ ret.op = "FeedCreate"
    /\ ret.feed # NilFeed
    /\ ret.res.Address = ret.feed.Address
    /\ ret.res.Provider # ret.feed.Provider
    /\ Cardinality(DOMAIN fm) = 2

\* C18 as stated: FeedStore.Get fails with 'resource not found' both for
\* the empty id and for an id that is not in the map, and returns the
\* stored feed otherwise.
C18_FeedGetNotFoundForEmpty ==
    ret.op = "FeedGet" =>
        /\ (ret.id = EmptyString \/ ret.id \notin DOMAIN fm) =>
              ret.err = ErrNotFound /\ ret.res = NilFeed
        /\ ret.id \in DOMAIN fm =>
              ret.err = NoError /\ ret.res = fm[ret.id]

\* C18 as the code has it: the empty id fails with 'invalid ID provided',
\* a non-empty id that is not in the map with the different error
\* 'resource not found', and an id of the map returns the stored feed.
C18_FeedGetOutcomes ==
    /\ ErrInvalidID # ErrNotFound
    /\ ret.op = "FeedGet" =>
          /\ ret.id = EmptyString =>
                ret.err = ErrInvalidID /\ ret.res = NilFeed
          /\ (ret.id # EmptyString /\ ret.id \notin DOMAIN fm) =>
                ret.err = ErrNotFound /\ ret.res = NilFeed
          /\ ret.id \in DOMAIN fm =>
                ret.err = NoError /\ ret.res = fm[ret.id]
                    /\ ret.res.ID = ret.id

\* Get of the empty id on a store that holds two feeds
C18_Witness ==
    /\ ret.op = "FeedGet"
    /\ ret.id = EmptyString
    /\ ret.err = ErrInvalidID
    /\ Cardinality(DOMAIN fm) = 2

\* C20: ArticleStore.Create(nil) and FeedStore.Create(nil) return nil and
\* no error, and leave the slice, the index and the feed map as they were.
C20_NilIsNoOp ==
    [][/\ (ret'.op = "Create" /\ ret'.article = NilArticle) =>
            /\ ret'.res = NilArticle
            /\ ret'.err = NoError
            /\ UNCHANGED <<a, m, fm>>
       /\ (ret'.op = "FeedCreate" /\ ret'.feed = NilFeed) =>
            /\ ret'.res = NilFeed
            /\ ret'.err = NoError
            /\ UNCHANGED <<a, m, fm>>]_vars

\* Create(nil) returned on stores that hold articles and feeds
C20_Witness ==
    /\ ret.op = "Create"
    /\ ret.article = NilArticle
    /\ ret.res = NilArticle
    /\ Len(a) = 2
    /\ Cardinality(DOMAIN fm) = 2

\* the addresses of the stored feeds
FeedAddresses(FM) == {FM[id].Address : id \in DOMAIN FM}

\* C28: every result FeedStore.List may give has no error and holds one
\* feed for each address created since the last Reset, and no other: a
\* Create adds its address to those listed, a Reset leaves the empty result
\* as the only one, and no other call changes what is listed.
C28_FeedListComplete ==
    [][/\ \A l \in FeedList(fm') :
             /\ l.err = NoError
             /\ {l.res[i] : i \in DOMAIN l.res} = {fm'[id] : id \in DOMAIN fm'}
             /\ \A address \in FeedAddresses(fm') :
                   Cardinality(WithAddress(l.res, address)) = 1
       /\ ret'.op = "FeedList" =>
             [res |-> ret'.res, err |-> ret'.err] \in FeedList(fm')
       /\ (ret'.op = "FeedCreate" /\ ret'.feed # NilFeed) =>
             FeedAddresses(fm') = FeedAddresses(fm) \cup {ret'.feed.Address}
       /\ ret'.op = "FeedReset" =>
             FeedList(fm') = {[res |-> <<>>, err |-> NoError]}
       /\ (ret'.op \notin {"FeedCreate", "FeedReset"}
              \/ (ret'.op = "FeedCreate" /\ ret'.feed = NilFeed)) =>
             FeedAddresses(fm') = FeedAddresses(fm)]_vars

\* List returned three feeds, in an order that is not that of their keys
C28_Witness ==
    /\ ret.op = "FeedList"
    /\ ret.err = NoError
    /\ Len(ret.res) = 3
    /\ ret.res[1].Address = "g3"
    /\ ret.res[3].Address = "g2"

----------------------------------------------------------------------------
(* Properties of the feed consumer *)

GUIDsOf(S) == {S[i].GUID : i \in DOMAIN S}

\* the step is a Consume call whose load succeeded
Consumed ==
    /\ ret'.op = "Consume"
    /\ ret'.load.err = NoError

\* C23: when the Create of the k-th loaded article fails, Consume returns
\* the error of the store as it is and has made k Create calls, the
\* articles before the k-th are stored, and neither the k-th nor a later
\* article has been stored by this call.
C23_StopsAtFirstStoreError ==
    [][(Consumed /\ ret'.failAt >= 1) =>
          LET articles == ret'.load.articles
              k == ret'.failAt
          IN  /\ ret'.err = RandomError
              /\ ret'.calls = k
              /\ \A j \in 1..(k - 1) : articles[j].GUID \in GUIDsOf(a')
              /\ \A j \in k..Len(articles) :
                    (/\ articles[j].GUID \notin GUIDsOf(a)
                     /\ \A h \in 1..(k - 1) :
                           articles[h].GUID # articles[j].GUID)
                        => articles[j].GUID \notin GUIDsOf(a')
              /\ Len(a') = Cardinality(GUIDsOf(a) \cup
                        {articles[j].GUID : j \in 1..(k - 1)})]_vars

\* of three new articles the second failed: the first is stored, alone
C23_Witness ==
    /\ ret.op = "Consume"
    /\ ret.failAt = 2
    /\ Len(ret.load.articles) = 3
    /\ ret.err = RandomError
    /\ Len(a) = 1
    /\ a[1].GUID = ret.load.articles[1].GUID
    /\ ret.load.articles[2].GUID # a[1].GUID
    /\ ret.load.articles[3].GUID # a[1].GUID

\* C24: a Consume changes no stored article, neither in the slice nor in
\* the index, and keeps their order; when it returns no error the stored
\* GUIDs are those stored before and those loaded, one article each, the
\* new ones stamped with the identifier of the feed; when every loaded GUID
\* was stored before, the slice and the index are as they were.
C24_ReloadIsAdditive ==
    [][ret'.op = "Consume" =>
          /\ \A id \in DOMAIN m : id \in DOMAIN m' /\ m'[id] = m[id]
          /\ SelectSeq(a', LAMBDA x : x.GUID \in GUIDsOf(a)) = a
          /\ (Consumed /\ ret'.err = NoError) =>
                /\ GUIDsOf(a') = GUIDsOf(a) \cup GUIDsOf(ret'.load.articles)
                /\ Len(a') = Cardinality(GUIDsOf(a'))
                /\ \A i \in DOMAIN a' :
                      a'[i].GUID \notin GUIDsOf(a) =>
                          /\ a'[i].FeedID = ret'.feed.ID
                          /\ \E j \in DOMAIN ret'.load.articles :
                                ret'.load.articles[j].GUID = a'[i].GUID
                /\ GUIDsOf(ret'.load.articles) \subseteq GUIDsOf(a) =>
                      a' = a /\ m' = m]_vars

\* a load of two articles that were stored before, for another feed
C24_Witness ==
    /\ ret.op = "Consume"
    /\ ret.err = NoError
    /\ Len(ret.load.articles) = 2
    /\ ret.load.articles[1].GUID # ret.load.articles[2].GUID
    /\ Len(a) = 2
    /\ \A j \in 1..2 : \E i \in DOMAIN a :
          a[i].GUID = ret.load.articles[j].GUID /\ a[i].FeedID # ret.feed.ID

\* C26 as stated: when the loader fails, the error Consume returns is the
\* error of the loader itself.
C26_LoadErrorUnchanged ==
    (ret.op = "Consume" /\ ret.load.err # NoError) => ret.err = ret.load.err

\* C26 as the code has it: when the loader fails, Consume makes no Create
\* call and returns an error whose text is "could not load articles from
\* the feed: " followed by the text of the loader's error, which is not the
\* loader's error.
C26_LoadErrorWrapped ==
    (ret.op = "Consume" /\ ret.load.err # NoError) =>
        /\ ret.err = "could not load articles from the feed: random error"
        /\ ret.err # ret.load.err
        /\ ret.calls = 0

\* a failed load, on a store that holds articles
C26_Witness ==
    /\ ret.op = "Consume"
    /\ ret.load.err = RandomError
    /\ ret.err # NoError
    /\ Len(a) = 2

\* C33: every article Consume hands to Create carries the identifier of
\* the consumed feed when Create is called with it, being otherwise as it
\* was loaded, and every article a Consume inserts is stored with the
\* identifier of the consumed feed, also when a later Create of the same
\* call fails.
C33_StampedBeforeCreate ==
    [][ret'.op = "Consume" =>
          /\ Len(ret'.handed) = ret'.calls
          /\ \A j \in DOMAIN ret'.handed :
                ret'.handed[j] = [ret'.load.articles[j]
                                     EXCEPT !.FeedID = ret'.feed.ID]
          /\ \A i \in DOMAIN a' :
                a'[i].GUID \notin GUIDsOf(a) =>
                    /\ a'[i].FeedID = ret'.feed.ID
                    /\ m'[a'[i].ID] = a'[i]]_vars

\* a Consume of the second feed inserted an article next to one of the
\* first feed and then failed on a later article
C33_Witness ==
    /\ ret.op = "Consume"
    /\ ret.feed.ID = Feed2
    /\ ret.failAt = 2
    /\ ret.err = RandomError
    /\ Len(a) = 2
    /\ \E i, j \in DOMAIN a :
          /\ a[i].FeedID = Feed1
          /\ a[j].FeedID = Feed2
          /\ a[j].GUID = ret.load.articles[1].GUID

\* the stored articles with GUID g that List returns for a feed filter,
\* over every cursor that resolves and every page size
ListedForFeed(S, feed, g) ==
    {x \in UNION {LET r == List(S, cursor, pageSize, feed, <<>>)
                  IN  {r.res[k] : k \in DOMAIN r.res} :
                      cursor \in {EmptyString} \cup {S[i].ID : i \in DOMAIN S},
                      pageSize \in PageSizes} :
        x.GUID = g}

\* C34: when a Consume of one feed loads an article whose GUID is stored
\* for another feed, the stored article stays as it was, with the feed
\* identifier it was stored with, no second article of that GUID is stored,
\* and List with the consumed feed as filter returns no article of that
\* GUID, for any cursor and page size.
C34_FirstFeedWins ==
    [][ret'.op = "Consume" =>
          \A i \in DOMAIN a :
              (/\ a[i].FeedID # ret'.feed.ID
               /\ a[i].GUID \in GUIDsOf(ret'.load.articles)) =>
                  /\ \A j \in DOMAIN a' :
                        a'[j].GUID = a[i].GUID => a'[j] = a[i]
                  /\ \E j \in DOMAIN a' : a'[j] = a[i]
                  /\ m'[a[i].ID] = a[i]
                  /\ ListedForFeed(a', ret'.feed.ID, a[i].GUID) = {}
                  /\ ListedForFeed(a', a[i].FeedID, a[i].GUID) = {a[i]}]_vars

\* the second feed loaded, without error, the one article that was stored
\* for the first feed, together with an article that was not stored
C34_Witness ==
    /\ ret.op = "Consume"
    /\ ret.feed.ID = Feed2
    /\ ret.err = NoError
    /\ ret.calls = 2
    /\ Len(a) = 2
    /\ \E i, j \in DOMAIN a :
          /\ a[i].FeedID = Feed1
          /\ a[i].GUID = ret.load.articles[1].GUID
          /\ a[j].FeedID = Feed2
          /\ a[j].GUID = ret.load.articles[2].GUID

\* the fetch failed, or an item of the batch has a publish date that
\* cannot be parsed
LoadFails(fetch) ==
    \/ fetch.err # NoError
    \/ \E k \in DOMAIN fetch.items :
          ParseWithFormat(fetch.items[k].PubDate).err # NoError

\* C38: when the fetch fails, or one item of the batch has a publish date
\* that cannot be parsed, the loader returns no articles and an error,
\* Consume returns an error and makes no Create call, and the slice and the
\* index of the store are as they were.
C38_FailedLoadStoresNothing ==
    [][(ret'.op = "Consume" /\ LoadFails(ret'.fetch)) =>
          /\ ret'.load.articles = NilArticles
          /\ ret'.load.err # NoError
          /\ ret'.err # NoError
          /\ ret'.calls = 0
          /\ ret'.handed = <<>>
          /\ a' = a
          /\ m' = m]_vars

\* of three fetched items only the last has a publish date that cannot be
\* parsed, the first two are not stored, and the store holds an article
C38_Witness ==
    /\ ret.op = "Consume"
    /\ ret.fetch.err = NoError
    /\ Len(ret.fetch.items) = 3
    /\ ret.fetch.items[1].PubDate \in DOMAIN ParsedDate
    /\ ret.fetch.items[2].PubDate \in DOMAIN ParsedDate
    /\ ret.fetch.items[3].PubDate = ""
    /\ ret.fetch.items[1].GUID # ret.fetch.items[2].GUID
    /\ ret.fetch.items[3].GUID \notin GUIDsOf(a)
    /\ ret.err # NoError
    /\ Len(a) = 1

----------------------------------------------------------------------------
(* Properties of the service *)

\* C27: the responses to a request with an invalid argument, to a Get of an
\* identifier that is not stored, to a List with a cursor that is not
\* stored and to a load whose loader fails have four different statuses.
C27_DistinctStatuses ==
    \A id \in DOMAIN fm :
        LET invalid == getArticle(m, EmptyString).status
            notFound == getArticle(m, <<"invalid_id">>).status
            noCursor == listArticles(a, TRUE, <<"invalid_id">>, 0,
                                     EmptyString, <<>>).status
            upstream == loadFeed(a, m, fm, id,
                            [articles |-> NilArticles,
                             err |-> RandomError]).response.status
        IN  Cardinality({invalid, notFound, noCursor, upstream}) = 4

----------------------------------------------------------------------------
(* Properties of concurrent callers *)

\* C3: whatever the interleaving of concurrent Create calls for one GUID,
\* the slice holds at most one article with the identifier of that GUID (the
\* one every call returns), as after the same calls made one after another.
C3_OneArticlePerIdentifier ==
    \A i, j \in DOMAIN a : a[i].ID = a[j].ID => i = j

\* C4: a goroutine that is about to read the index (the duplicate check of
\* Create) or to write the slice and the index (the insertion of Create, the
\* clearing of Reset) holds the writer lock.
C4_LockDiscipline ==
    \A p \in Procs : pc[p] \in {"check", "insert", "reset"} => writer = p

\* C5: whenever no goroutine holds the writer lock, every article of the
\* slice is the value of the index at its identifier, every value of the
\* index occurs exactly once in the slice, and the slice is as long as the
\* index is large.
C5_Bijection ==
    writer = None =>
        /\ \A i \in DOMAIN a : a[i].ID \in DOMAIN m /\ m[a[i].ID] = a[i]
        /\ \A id \in DOMAIN m :
              Cardinality({i \in DOMAIN a : a[i] = m[id]}) = 1
        /\ Len(a) = Cardinality(DOMAIN m)

\* C16: when the paging client holds a page whose last article is c and a
\* Create then stores an article published strictly earlier than c, no List
\* with the identifier of c as cursor returns the new article, whatever
\* the page size.
C16_WeakPaginationConsistency ==
    [][\A p \in Procs :
         (pg.state = "paging" /\ pc[p] = "insert" /\ pc'[p] = "idle"
              /\ After(pg.got[Len(pg.got)].PublishDate, arg[p].PublishDate)) =>
             \A pageSize \in PageSizes :
                 LET r == List(a', pg.got[Len(pg.got)].ID, pageSize,
                               EmptyString, <<>>)
                 IN  \A k \in DOMAIN r.res : r.res[k] # arg[p]]_vars

\* C19: whatever the interleaving of FeedStore.Create calls of one address,
\* calls that have returned a feed of the same address have returned the
\* same value, each call returns the feed that Get then gives for its
\* identifier, and the feed stored under an identifier stays the same for
\* as long as the identifier is in the map.
C19_ConcurrentFeedCreate ==
    [][/\ \A id \in DOMAIN fm \cap DOMAIN fm' :
             FeedGet(fm', id) = FeedGet(fm, id)
       /\ \A p \in Procs :
             (pc[p] # "idle" /\ pc'[p] = "idle"
                  /\ result'[p].op = "FeedCreate") =>
                 FeedGet(fm', result'[p].res.ID).res = result'[p].res
       /\ (\A id \in DOMAIN fm : id \in DOMAIN fm') =>
             \A p, q \in Procs :
                 (result'[p].op = "FeedCreate" /\ result'[q].op = "FeedCreate"
                      /\ result'[p].res.Address = result'[q].res.Address) =>
                     result'[p].res = result'[q].res]_vars

\* C21: while a goroutine holds the reader lock no writer holds the mutex
\* and neither the slice nor the index changes; a List holds the reader
\* lock from before it resolves the cursor until it returns, a Get while it
\* reads the index; and what a List returns is the filtered, page-limited
\* suffix of the slice as it was when the call took the lock.
C21_ListObservesOneSnapshot ==
    [][/\ readers # {} => (a' = a /\ m' = m)
       /\ readers' # {} => writer' = None
       /\ \A p \in Procs :
             /\ pc'[p] \in {"resolve", "walk", "get"} <=> p \in readers'
             /\ (pc[p] \in {"resolve", "walk"} /\ pc'[p] = "idle") =>
                   [res |-> result'[p].page, err |-> result'[p].err]
                       = List(arg[p].seen, arg[p].cursor, arg[p].pageSize,
                              EmptyString, <<>>)]_vars

\* a List is between resolving its cursor and its walk, a Get reads the
\* index at the same time, and the store holds articles
C21_Witness ==
    /\ pc["p1"] = "walk"
    /\ pc["p2"] = "get"
    /\ readers = Procs
    /\ Len(a) = 2
    /\ arg["p1"].idx = 1

\* C22: a goroutine that has returned holds no lock, and every call that
\* was made returns.
C22_EveryCallReturns ==
    /\ [](\A p \in Procs : pc[p] = "idle" => (writer # p /\ p \notin readers))
    /\ \A p \in Procs : (pc[p] # "idle") ~> (pc[p] = "idle")

\* C25: in a step that is not the clearing of a Reset, every article of the
\* slice stays in the slice with the fields it had, and the index still
\* maps its identifier to what it mapped it to.
C25_StoredArticlesImmutable ==
    [][(\A p \in Procs : ~(pc[p] = "reset" /\ pc'[p] = "idle")) =>
          \A i \in DOMAIN a :
              /\ \E j \in DOMAIN a' : a'[j] = a[i]
              /\ a[i].ID \in DOMAIN m'
              /\ m'[a[i].ID] = m[a[i].ID]]_vars

============================================================================
